---- MODULE Spec2Model ----
(***************************************************************************)
(* Transcript pipeline of YouTubeService (src/src/youtube-service.ts):     *)
(* getTranscript with its cache, channel-country language detection and    *)
(* language fallback loop, and the pure transforms of processTranscript.   *)
(*                                                                         *)
(* Strings that the code searches (error messages) are sequences of        *)
(* space-separated tokens; times are integers (seconds for the clock and   *)
(* the time range, milliseconds for cue offsets and durations).            *)
(***************************************************************************)
EXTENDS Integers, Sequences, FiniteSets, TLC

VARIABLES
    now,      \* wall clock, in seconds
    cache,    \* transcriptCache: key -> [v |-> cue list, t |-> time of the set]
    calls,    \* one record per call slot: a getTranscript call in progress
    slots,    \* the call slots in use (fixed by Init)
    started,  \* number of getTranscript calls started so far
    fnOp,     \* pure-function harness: which function is applied
    fnIn,     \* pure-function harness: its input
    fnOut,    \* pure-function harness: its output
    enhanced, \* the REST request in progress
    source    \* what the caption source and the metadata providers hold, for
              \* the runs in which their answers do not change

vars ==
    <<now, cache, calls, slots, started, fnOp, fnIn, fnOut, enhanced, source>>

----------------------------------------------------------------------------
(* Bounds of the model *)

\* number of getTranscript calls a behaviour starts
MaxCalls == 2
\* the clock stops advancing once it has reached MaxTime seconds
MaxTime == 3601
\* longest cue list handed to the pure transforms
MaxLen == 3
\* longest cue list handed to the search filter and to the segmentation
MaxCues == 5

(* Program constants *)

TRANSCRIPT_CACHE_TTL == 3600

----------------------------------------------------------------------------
(* Values *)

\* JavaScript undefined, for an optional string and for an optional number
Undefined == "<undefined>"
NoNum == -1

\* a string is truthy unless undefined or empty; a number unless undefined or 0
TruthyStr(s) == s # Undefined /\ s # ""
TruthyNum(n) == n # NoNum /\ n # 0

Range(f) == {f[k] : k \in DOMAIN f}

\* Array.prototype.filter: the elements at the indices `kept`, in their order
filter(s, kept) ==
    LET F[k \in 0..Len(s)] ==
            IF k = 0 THEN <<>>
            ELSE IF k \in kept THEN Append(F[k - 1], s[k]) ELSE F[k - 1]
    IN F[Len(s)]

\* the fallback pool, in priority order
fallbackLanguages ==
    <<"en", "ko", "ja", "es", "fr", "de", "zh", "pt", "ru", "it", "ar", "hi">>

\* the static country -> language table
countryLangMap ==
    [c \in {"KR"} |-> "ko"]
    @@ [c \in {"US", "GB", "AU", "NZ", "IE", "ZA"} |-> "en"]
    @@ [c \in {"JP"} |-> "ja"]
    @@ [c \in {"ES", "MX", "AR", "CO", "CL", "PE", "VE"} |-> "es"]
    @@ [c \in {"FR", "BE", "LU"} |-> "fr"]
    @@ [c \in {"DE", "AT"} |-> "de"]
    @@ [c \in {"CN", "TW", "HK", "SG"} |-> "zh"]
    @@ [c \in {"BR", "PT"} |-> "pt"]
    @@ [c \in {"RU"} |-> "ru"]
    @@ [c \in {"IT"} |-> "it"]
    @@ [c \in {"SA", "AE", "EG", "IQ"} |-> "ar"]
    @@ [c \in {"IN"} |-> "hi"]
    @@ [c \in {"TH"} |-> "th"]
    @@ [c \in {"VN"} |-> "vi"]
    @@ [c \in {"ID"} |-> "id"]
    @@ [c \in {"TR"} |-> "tr"]
    @@ [c \in {"PL"} |-> "pl"]
    @@ [c \in {"NL"} |-> "nl"]
    @@ [c \in {"CA"} |-> "en"]
    @@ [c \in {"CH"} |-> "de"]

\* String.prototype.toUpperCase on the country codes the model feeds in
toUpperCase(c) ==
    CASE c = "kr" -> "KR"
      [] c = "us" -> "US"
      [] c = "Jp" -> "JP"
      [] OTHER -> c

\* countryToLanguage: null (Undefined) for no code and for a code off the table
countryToLanguage(countryCode) ==
    IF ~TruthyStr(countryCode) THEN Undefined
    ELSE IF toUpperCase(countryCode) \in DOMAIN countryLangMap
         THEN countryLangMap[toUpperCase(countryCode)]
         ELSE Undefined

\* mutant: the requested language is put first but not removed from the pool
BuildListKeepDup(first) == <<first>> \o fallbackLanguages

\* [first] followed by the pool without `first`
BuildList(first) ==
    <<first>> \o filter(fallbackLanguages,
                        {k \in DOMAIN fallbackLanguages :
                            fallbackLanguages[k] # first})

\* languagesToTry as getTranscript builds it, from options.language and, when
\* none is requested, from the language detection yields (Undefined for none)
LanguagesToTry(language, detectedLanguage) ==
    IF TruthyStr(language) THEN BuildList(language)
    ELSE IF TruthyStr(detectedLanguage) THEN BuildList(detectedLanguage)
    ELSE fallbackLanguages

\* generateTranscriptCacheKey: JSON of {language: options.language || 'default'}
\* after the video id; the pair stands for the string
generateTranscriptCacheKey(videoId, language) ==
    <<videoId, IF TruthyStr(language) THEN language ELSE "default">>

----------------------------------------------------------------------------
(* Cues and the processor *)

Cue(text, offset, duration) ==
    [text |-> text, offset |-> offset, duration |-> duration]

NoRange == [given |-> FALSE, start |-> NoNum, end |-> NoNum]
TimeRange(start, end) == [given |-> TRUE, start |-> start, end |-> end]

\* the predicate of filterByTimeRange; x / 1000 >= s is x >= s * 1000
KeepInRange(segment, timeRange) ==
    LET start == IF timeRange.start = NoNum THEN 0 ELSE timeRange.start
    IN IF TruthyNum(timeRange.end)
       THEN segment.offset >= start * 1000
            /\ segment.offset + segment.duration <= timeRange.end * 1000
       ELSE segment.offset >= start * 1000

filterByTimeRange(segments, timeRange) ==
    filter(segments,
           {k \in DOMAIN segments : KeepInRange(segments[k], timeRange)})

\* a text that is searched is a sequence of characters

\* String.prototype.toLowerCase
lowerCaseOf(ch) ==
    CASE ch = "A" -> "a"
      [] ch = "B" -> "b"
      [] OTHER -> ch
toLowerCase(text) == [k \in DOMAIN text |-> lowerCaseOf(text[k])]

\* String.prototype.trim: the text between its first and its last character
\* that is not white space
trim(text) ==
    LET inked == {k \in DOMAIN text : text[k] # " "}
    IN IF inked = {} THEN <<>>
       ELSE SubSeq(text,
                   CHOOSE k \in inked : \A j \in 1..(k - 1) : text[j] = " ",
                   CHOOSE k \in inked :
                      \A j \in (k + 1)..Len(text) : text[j] = " ")

\* String.prototype.includes
includes(text, searchText) ==
    \E k \in 0..(Len(text) - Len(searchText)) :
        \A j \in 1..Len(searchText) : text[k + j] = searchText[j]

\* SearchOptions; contextLines is NoNum when the request leaves it out, and
\* caseSensitive left out is FALSE, its default
NoSearch ==
    [given |-> FALSE, query |-> <<>>, caseSensitive |-> FALSE,
     contextLines |-> NoNum]
Search(query, caseSensitive, contextLines) ==
    [given |-> TRUE, query |-> query, caseSensitive |-> caseSensitive,
     contextLines |-> contextLines]

\* the indices (from 1) of the cues whose text includes the query
matchedIndices(segments, search) ==
    {index \in DOMAIN segments :
        LET text == IF search.caseSensitive THEN segments[index].text
                    ELSE toLowerCase(segments[index].text)
            searchText == IF search.caseSensitive THEN search.query
                          ELSE toLowerCase(search.query)
        IN includes(text, searchText)}

\* mutant: the context is taken after a match only, not before it
indicesWithContextAfter(segments, search) ==
    LET contextLines == IF search.contextLines = NoNum THEN 0
                        ELSE search.contextLines
        matched == matchedIndices(segments, search)
    IN matched
       \cup ({index + i : index \in matched, i \in 1..contextLines}
             \cap DOMAIN segments)

\* the matched indices and, around each, contextLines indices on either side
\* that lie within the list
indicesWithContext(segments, search) ==
    LET contextLines == IF search.contextLines = NoNum THEN 0
                        ELSE search.contextLines
        matched == matchedIndices(segments, search)
    IN matched
       \cup ({index - i : index \in matched, i \in 1..contextLines}
             \cap DOMAIN segments)
       \cup ({index + i : index \in matched, i \in 1..contextLines}
             \cap DOMAIN segments)

\* filterBySearchText: a query that is empty or white space filters nothing;
\* else the cues at the indices with context, in ascending index order
filterBySearchText(segments, search) ==
    IF search.query = <<>> \/ trim(search.query) = <<>> THEN segments
    ELSE IF matchedIndices(segments, search) = {} THEN <<>>
    ELSE filter(segments, indicesWithContext(segments, search))

\* the segment option; method is Undefined and count is NoNum when left out
NoSegment == [given |-> FALSE, method |-> Undefined, count |-> NoNum]
Segment(method, count) == [given |-> TRUE, method |-> method, count |-> count]

\* mutant: the quotient is rounded down
ceilDivDown(a, b) == a \div b

\* Math.ceil(a / b) for a >= 0 and b > 0
ceilDiv(a, b) == (a + b - 1) \div b

\* Array.prototype.slice(i, j) with 0 <= i, indices from 0 and j excluded
slice(s, i, j) == SubSeq(s, i + 1, IF j < Len(s) THEN j ELSE Len(s))

\* mutant: the chunks are put together last to first
flatBackwards(result) ==
    LET F[k \in 0..Len(result)] ==
            IF k = 0 THEN <<>> ELSE result[k] \o F[k - 1]
    IN F[Len(result)]

\* Array.prototype.flat of a list of lists
flat(result) ==
    LET F[k \in 0..Len(result)] ==
            IF k = 0 THEN <<>> ELSE F[k - 1] \o result[k]
    IN F[Len(result)]

\* the sum of the durations of the first k cues
sumDuration(segments, k) ==
    LET F[j \in 0..k] == IF j = 0 THEN 0 ELSE F[j - 1] + segments[j].duration
    IN F[k]

\* `result` of the 'equal' method before it is flattened: the loop over
\* i = 0, segmentSize, 2 * segmentSize, ... while i < segments.length
equalResult(segments, count) ==
    LET segmentSize == ceilDiv(Len(segments), count)
        Loop[i \in 0..(Len(segments) + segmentSize)] ==
            IF i >= Len(segments) THEN <<>>
            ELSE <<slice(segments, i, i + segmentSize)>> \o Loop[i + segmentSize]
    IN Loop[0]

\* the state of the 'smart' method's forEach after k cues
smartLoop(segments, count) ==
    LET totalDuration == sumDuration(segments, Len(segments))
        F[k \in 0..Len(segments)] ==
            IF k = 0
            THEN [result |-> <<>>, currentSegment |-> <<>>, currentDuration |-> 0]
            ELSE LET before == F[k - 1]
                     currentSegment == Append(before.currentSegment, segments[k])
                     currentDuration ==
                         before.currentDuration + segments[k].duration
                 IN \* currentDuration >= totalDuration / count
                    IF /\ currentDuration * count >= totalDuration
                       /\ Len(before.result) < count - 1
                    THEN [result |-> Append(before.result, currentSegment),
                          currentSegment |-> <<>>, currentDuration |-> 0]
                    ELSE [result |-> before.result,
                          currentSegment |-> currentSegment,
                          currentDuration |-> currentDuration]
    IN F[Len(segments)]

\* mutant: the cues left after the loop are not pushed
smartResultOpenEnd(segments, count) == smartLoop(segments, count).result

\* `result` of the 'smart' method before it is flattened
smartResult(segments, count) ==
    LET end == smartLoop(segments, count)
    IN IF Len(end.currentSegment) > 0
       THEN Append(end.result, end.currentSegment)
       ELSE end.result

\* `result` of segmentTranscript, and no chunk when it returns early
segmentResult(segments, segmentOptions) ==
    LET method == IF segmentOptions.method = Undefined THEN "equal"
                  ELSE segmentOptions.method
        count == IF segmentOptions.count = NoNum THEN 1
                 ELSE segmentOptions.count
    IN IF count <= 1 \/ Len(segments) <= count THEN <<>>
       ELSE IF method = "equal" THEN equalResult(segments, count)
       ELSE smartResult(segments, count)

\* mutant: the first chunk is returned in place of all of them
segmentTranscriptFirstChunk(segments, segmentOptions) ==
    LET count == IF segmentOptions.count = NoNum THEN 1
                 ELSE segmentOptions.count
    IN IF count <= 1 \/ Len(segments) <= count THEN segments
       ELSE segmentResult(segments, segmentOptions)[1]

segmentTranscript(segments, segmentOptions) ==
    LET count == IF segmentOptions.count = NoNum THEN 1
                 ELSE segmentOptions.count
    IN IF count <= 1 \/ Len(segments) <= count THEN segments
       ELSE flat(segmentResult(segments, segmentOptions))

\* processTranscript: the time range, then the search, then the segmentation,
\* each when the request carries it
processTranscript(segments, options) ==
    LET ranged == IF options.timeRange.given
                  THEN filterByTimeRange(segments, options.timeRange)
                  ELSE segments
        searched == IF options.search.given
                    THEN filterBySearchText(ranged, options.search)
                    ELSE ranged
        segmented == IF options.segment.given
                     THEN segmentTranscript(searched, options.segment)
                     ELSE searched
    IN IF Len(segments) = 0 THEN <<>> ELSE segmented

----------------------------------------------------------------------------
(* The formatter *)

Digits == <<"0", "1", "2", "3", "4", "5", "6", "7", "8", "9">>

\* Number.prototype.toString of a natural number: its decimal digits
numberToString(n) ==
    LET F[m \in 0..n] ==
            IF m < 10 THEN <<Digits[m + 1]>>
            ELSE F[m \div 10] \o <<Digits[(m % 10) + 1]>>
    IN F[n]

\* mutant: nothing is put in front
padStartNothing(text, targetLength, padString) == text

\* String.prototype.padStart with a pad of one character
padStart(text, targetLength, padString) ==
    [k \in 1..(targetLength - Len(text)) |-> padString] \o text

\* formatTimestamp: minutes without bound, a colon, seconds in two digits
formatTimestamp(milliseconds) ==
    LET totalSeconds == milliseconds \div 1000
        minutes == totalSeconds \div 60
        seconds == totalSeconds % 60
    IN numberToString(minutes) \o <<":">>
       \o padStart(numberToString(seconds), 2, "0")

\* Array.prototype.join with a separator of one character; the lines from lo
\* to hi are put together half by half
join(lines, separator) ==
    LET J[lo \in DOMAIN lines, hi \in DOMAIN lines] ==
            IF lo = hi THEN lines[lo]
            ELSE J[lo, (lo + hi) \div 2] \o <<separator>>
                 \o J[((lo + hi) \div 2) + 1, hi]
    IN IF Len(lines) = 0 THEN <<>> ELSE J[1, Len(lines)]

\* mutant: the quotient loses its fraction
quotientBy1000Whole(ms) == [whole |-> ms \div 1000, thousandths |-> 0]

\* ms / 1000, a number of seconds with its three decimal places
quotientBy1000(ms) == [whole |-> ms \div 1000, thousandths |-> ms % 1000]

\* a videos.list response: no item, or the one video asked for
NoVideoResponse == [items |-> <<>>]
VideoResponse(id) ==
    [items |-> <<[id |-> id,
                  snippet |-> [title |-> <<"title", id>>, channelId |-> "ch1",
                               channelTitle |-> "channel",
                               publishedAt |-> "2024-01-01"],
                  contentDetails |-> [duration |-> "PT1M40S"],
                  statistics |-> [viewCount |-> "10", likeCount |-> "1"]]>>]

\* the metadata array: one entry per response that holds a video
metadataOf(videoDetails) ==
    LET entry(details) ==
            LET video == details.items[1]
            IN [id |-> video.id, title |-> video.snippet.title,
                channelId |-> video.snippet.channelId,
                channelTitle |-> video.snippet.channelTitle,
                publishedAt |-> video.snippet.publishedAt,
                duration |-> video.contentDetails.duration,
                viewCount |-> video.statistics.viewCount,
                likeCount |-> video.statistics.likeCount]
        mapped == [k \in DOMAIN videoDetails |->
                     IF Len(videoDetails[k].items) = 0 THEN <<>>
                     ELSE <<entry(videoDetails[k])>>]
    IN flat(mapped)

\* formatTranscript; hasText and hasMetadata tell whether the result carries
\* the optional text and metadata
formatTranscript(segments, videoDetails, options) ==
    LET format == IF options.format = Undefined THEN "raw" ELSE options.format
        stamped == [k \in DOMAIN segments |->
                      <<"[">> \o formatTimestamp(segments[k].offset)
                      \o <<"]", " ">> \o segments[k].text]
        texts == [k \in DOMAIN segments |-> segments[k].text]
    IN [segments |-> segments,
        totalSegments |-> Len(segments),
        duration |-> quotientBy1000(sumDuration(segments, Len(segments))),
        format |-> format,
        hasMetadata |-> options.includeMetadata,
        metadata |-> IF options.includeMetadata THEN metadataOf(videoDetails)
                     ELSE <<>>,
        hasText |-> format \in {"timestamped", "merged"},
        text |-> IF format = "timestamped" THEN join(stamped, "\n")
                 ELSE IF format = "merged" THEN join(texts, " ")
                 ELSE <<>>]

----------------------------------------------------------------------------
(* The reports of getKeyMomentsTranscript and getSegmentedTranscript, from   *)
(* the transcript and the video details on                                   *)

mathMax(a, b) == IF a >= b THEN a ELSE b
mathMin(a, b) == IF a <= b THEN a ELSE b

\* seconds * 1000 of a quotient ms / 1000
times1000(seconds) == seconds.whole * 1000 + seconds.thousandths

\* `[mm:ss] text` of every cue, one a line
stampedLines(transcriptData) ==
    join([k \in DOMAIN transcriptData |->
            <<"[">> \o formatTimestamp(transcriptData[k].offset)
            \o <<"]", " ">> \o transcriptData[k].text],
         "\n")

\* the title of the report
titleOf(videoData) ==
    IF Len(videoData.items) = 0 THEN <<"Video Transcript">>
    ELSE videoData.items[1].snippet.title

\* what both reports return around their text
reportOf(transcriptData, videoData, formattedText) ==
    LET lastSegment == transcriptData[Len(transcriptData)]
    IN [segments |-> transcriptData,
        totalSegments |-> Len(transcriptData),
        duration |-> quotientBy1000(lastSegment.offset + lastSegment.duration),
        format |-> "timestamped",
        hasMetadata |-> Len(videoData.items) > 0,
        metadata |-> metadataOf(<<videoData>>),
        hasText |-> TRUE,
        text |-> formattedText]

paragraphSizeOf(length) == mathMax(5, mathMin(8, length \div 15))

\* the paragraph that is pushed: its text is trimmed
Paragraph(currentParagraph, startTime, endMs) ==
    [text |-> trim(currentParagraph), startTime |-> startTime,
     endTime |-> quotientBy1000(endMs)]

\* currentParagraph once the loop has passed the cues from..to, `from` being
\* where it started the paragraph: their texts with a blank between any two
currentParagraphOf(transcriptData, from, to) ==
    LET Pass[k \in from..to] ==
            IF k = from THEN transcriptData[k].text
            ELSE Pass[k - 1] \o <<" ">> \o transcriptData[k].text
    IN Pass[to]

\* `paragraphs`: the loop starts a paragraph at every index that is a multiple
\* of paragraphSize and pushes the one before it, ended by the offset of the
\* cue at that index; the last one is pushed after the loop, ended by the end
\* of the last cue; a paragraph whose text is empty is not pushed
paragraphsOf(transcriptData) ==
    LET paragraphSize == paragraphSizeOf(Len(transcriptData))
        lastSegment == transcriptData[Len(transcriptData)]
        runs == ceilDiv(Len(transcriptData), paragraphSize)
        pushed(r) ==
            LET from == (r - 1) * paragraphSize + 1
                to == mathMin(r * paragraphSize, Len(transcriptData))
                currentParagraph == currentParagraphOf(transcriptData, from, to)
            IN IF currentParagraph # <<>>
               THEN <<Paragraph(currentParagraph,
                                quotientBy1000(transcriptData[from].offset),
                                IF r < runs THEN transcriptData[to + 1].offset
                                ELSE lastSegment.offset + lastSegment.duration)>>
               ELSE <<>>
    IN flat([r \in 1..runs |-> pushed(r)])

\* mutant: the shortest paragraphs come first
sortAscending(paragraphs) ==
    LET F[k \in 0..Len(paragraphs)] ==
            IF k = 0 THEN <<>>
            ELSE LET before == F[k - 1]
                     ahead == Cardinality({j \in DOMAIN before :
                                  Len(before[j].text) <= Len(paragraphs[k].text)})
                 IN SubSeq(before, 1, ahead) \o <<paragraphs[k]>>
                    \o SubSeq(before, ahead + 1, Len(before))
    IN F[Len(paragraphs)]

\* Array.prototype.sort by text length, the longest first; the sort is stable
sortDescending(paragraphs) ==
    LET F[k \in 0..Len(paragraphs)] ==
            IF k = 0 THEN <<>>
            ELSE LET before == F[k - 1]
                     ahead == Cardinality({j \in DOMAIN before :
                                  Len(before[j].text) >= Len(paragraphs[k].text)})
                 IN SubSeq(before, 1, ahead) \o <<paragraphs[k]>>
                    \o SubSeq(before, ahead + 1, Len(before))
    IN F[Len(paragraphs)]

\* keyMoments: the paragraphs of more than 100 characters, the longest first,
\* the first maxMoments of them
keyMomentsOf(paragraphs, maxMoments) ==
    slice(sortDescending(filter(paragraphs,
                                {k \in DOMAIN paragraphs :
                                    Len(paragraphs[k].text) > 100})),
          0, maxMoments)

\* the text of the key moments report
keyMomentsText(transcriptData, videoData, keyMoments) ==
    LET heading(index) ==
            <<"## Key Moment ">> \o numberToString(index) \o <<" [">>
            \o formatTimestamp(times1000(keyMoments[index].startTime))
            \o <<"]\n">> \o keyMoments[index].text \o <<"\n\n">>
    IN <<"# Key Moments in: ">> \o titleOf(videoData) \o <<"\n\n">>
       \o flat([index \in DOMAIN keyMoments |-> heading(index)])
       \o <<"\n# Full Transcript\n\n">> \o stampedLines(transcriptData)

\* getKeyMomentsTranscript once it has a transcript that is not empty
keyMomentsTranscript(transcriptData, videoData, maxMoments) ==
    reportOf(transcriptData, videoData,
             keyMomentsText(transcriptData, videoData,
                            keyMomentsOf(paragraphsOf(transcriptData),
                                         maxMoments)))

\* a time of num / den milliseconds
Ratio(num, den) == [num |-> num, den |-> den]

\* mutant: a cue that starts at the end of the window is taken into it
windowCuesClosed(transcriptData, segmentCount, i) ==
    LET lastSegment == transcriptData[Len(transcriptData)]
        total == lastSegment.offset + lastSegment.duration
    IN {k \in DOMAIN transcriptData :
           /\ transcriptData[k].offset * segmentCount >= i * total
           /\ transcriptData[k].offset * segmentCount <= (i + 1) * total}

\* the cues of window i (from 0): offset / 1000 >= i * (totalDuration /
\* segmentCount) and offset / 1000 < (i + 1) * (totalDuration / segmentCount),
\* compared in milliseconds and multiplied through by segmentCount
windowCues(transcriptData, segmentCount, i) ==
    LET lastSegment == transcriptData[Len(transcriptData)]
        total == lastSegment.offset + lastSegment.duration
    IN {k \in DOMAIN transcriptData :
           /\ transcriptData[k].offset * segmentCount >= i * total
           /\ transcriptData[k].offset * segmentCount < (i + 1) * total}

\* `segments` of getSegmentedTranscript: one entry per window that holds a cue
windowsOf(transcriptData, segmentCount) ==
    LET lastSegment == transcriptData[Len(transcriptData)]
        total == lastSegment.offset + lastSegment.duration
        entry(i) ==
            LET segmentTranscript_ ==
                    filter(transcriptData,
                           windowCues(transcriptData, segmentCount, i))
            IN IF Len(segmentTranscript_) > 0
               THEN <<[startTime |-> Ratio(i * total, segmentCount),
                       endTime |-> Ratio((i + 1) * total, segmentCount),
                       text |-> join([k \in DOMAIN segmentTranscript_ |->
                                        segmentTranscript_[k].text], " "),
                       transcriptSegments |-> segmentTranscript_]>>
               ELSE <<>>
    IN flat([w \in 1..segmentCount |-> entry(w - 1)])

\* the text of the segmented report
segmentedText(videoData, segments) ==
    LET part(index) ==
            <<"## Segment ">> \o numberToString(index) \o <<" [">>
            \o formatTimestamp(segments[index].startTime.num
                               \div segments[index].startTime.den)
            \o <<" - ">>
            \o formatTimestamp(segments[index].endTime.num
                               \div segments[index].endTime.den)
            \o <<"]\n\n">>
            \o stampedLines(segments[index].transcriptSegments)
            \o <<"\n\n">>
    IN <<"# Segmented Transcript: ">> \o titleOf(videoData) \o <<"\n\n">>
       \o flat([index \in DOMAIN segments |-> part(index)])

\* getSegmentedTranscript once it has a transcript that is not empty
segmentedTranscript(transcriptData, videoData, segmentCount) ==
    reportOf(transcriptData, videoData,
             segmentedText(videoData, windowsOf(transcriptData, segmentCount)))

----------------------------------------------------------------------------
(* The caption source (getSubtitles of youtube-captions-scraper) and the     *)
(* metadata providers, as the environment of getTranscript                   *)

Videos == {"v1", "v2"}

\* languages the caption source may hold a caption track of: the first, the
\* second and the last of the pool
SourceLangs == {"en", "ko", "hi"}

\* the raw cue list of a video in a language; the text names both
Captions(videoId, lang) ==
    <<Cue(<<videoId, lang>>, 0, 1000), Cue(<<videoId, lang>>, 2000, 1000)>>

RawCueLists == {Captions(v, l) : v \in Videos, l \in SourceLangs}

\* messages the caption source throws with, as token sequences
NoCaptionsMsg(videoId) ==
    <<"Could", "not", "find", "captions", "for", "video:", videoId>>
LangMsg(lang, videoId) ==
    <<"Could", "not", "find", lang, "captions", "for", videoId>>
NetworkMsg == <<"Request", "failed", "with", "status", "code", "429">>
\* message of a metadata provider failure
QuotaMsg == <<"quotaExceeded">>

\* tokens the regular expression's \w+ matches
WordTokens ==
    Range(fallbackLanguages) \cup SourceLangs \cup Videos
    \cup {"Could", "not", "find", "captions", "for", "Request", "failed",
          "with", "status", "code", "429", "default"}

\* String.prototype.includes of a pattern of whole tokens
Includes(msg, pat) ==
    \E k \in 0..(Len(msg) - Len(pat)) :
        \A j \in 1..Len(pat) : msg[k + j] = pat[j]

\* includes of a pattern that ends in a space: a further token follows it
IncludesThenSpace(msg, pat) ==
    \E k \in 0..(Len(msg) - Len(pat) - 1) :
        \A j \in 1..Len(pat) : msg[k + j] = pat[j]

\* match of /Could not find \w+ captions for/
MatchesLangPattern(msg) ==
    \E k \in 0..(Len(msg) - 6) :
        /\ msg[k + 1] = "Could" /\ msg[k + 2] = "not" /\ msg[k + 3] = "find"
        /\ msg[k + 4] \in WordTokens
        /\ msg[k + 5] = "captions" /\ msg[k + 6] = "for"

\* mutant: the no-captions signal is never recognised
isNoCaptionsErrorNever(errorMessage) == FALSE

\* the classification of a caught error as "the video has no captions at all"
isNoCaptionsError(errorMessage) ==
    /\ \/ Includes(errorMessage,
                   <<"Could", "not", "find", "captions", "for", "video:">>)
       \/ IncludesThenSpace(errorMessage,
                            <<"Could", "not", "find", "captions", "for">>)
    /\ ~MatchesLangPattern(errorMessage)

\* what getSubtitles may do for one call: for a language the source holds a
\* track of, resolve with its cues or with an empty list; for any language,
\* throw (no captions at all, none in this language, or a transport failure)
SourceAnswers(videoId, lang) ==
    (IF lang \in SourceLangs
     THEN {[kind |-> "cues", cues |-> Captions(videoId, lang)],
           [kind |-> "cues", cues |-> <<>>]}
     ELSE {})
    \cup {[kind |-> "throw", message |-> m] :
            m \in {NoCaptionsMsg(videoId), LangMsg(lang, videoId), NetworkMsg}}

NoAnswer == [kind |-> "none"]

\* what getVideoDetails may do: throw, or resolve with or without a channel id
VideoAnswers ==
    {[kind |-> "throw", message |-> QuotaMsg, channelId |-> Undefined],
     [kind |-> "ok", message |-> <<>>, channelId |-> Undefined],
     [kind |-> "ok", message |-> <<>>, channelId |-> "ch1"]}

\* what getChannelDetails may do: throw, or resolve with or without a country
ChannelAnswers ==
    {[kind |-> "throw", message |-> QuotaMsg, country |-> Undefined]}
    \cup {[kind |-> "ok", message |-> <<>>, country |-> c] :
            c \in {Undefined, "KR", "ZZ"}}

----------------------------------------------------------------------------
(* The cache *)

\* node-cache keeps the time the entry lives to, t + ttl, and get() treats the
\* entry as absent once that time is behind the clock
CacheExpired(entry) == entry.t + TRANSCRIPT_CACHE_TTL < now

\* mutant: the expiry is never checked
CacheHitForever(key) == key \in DOMAIN cache

CacheHit(key) == key \in DOMAIN cache /\ ~CacheExpired(cache[key])

CacheValue(key) == cache[key].v

\* mutant: an entry that exists is not overwritten
CacheSetOnce(c, key, value) ==
    [k \in DOMAIN c \cup {key} |->
        IF k = key /\ k \notin DOMAIN c THEN [v |-> value, t |-> now] ELSE c[k]]

CacheSet(c, key, value) ==
    [k \in DOMAIN c \cup {key} |->
        IF k = key THEN [v |-> value, t |-> now] ELSE c[k]]

----------------------------------------------------------------------------
(* getTranscript *)

\* TranscriptOptions; format is Undefined when left out, and includeMetadata
\* left out is FALSE
TranscriptOptions(language, timeRange, search, segment, format, includeMetadata) ==
    [language |-> language, timeRange |-> timeRange, search |-> search,
     segment |-> segment, format |-> format,
     includeMetadata |-> includeMetadata]

\* the options of a request that names at most a language and a time range
Options(language, timeRange) ==
    TranscriptOptions(language, timeRange, NoSearch, NoSegment, Undefined, FALSE)

NullError == [isNull |-> TRUE, message |-> <<>>]
Error(message) == [isNull |-> FALSE, message |-> message]

NoTranscriptError ==
    [name |-> "none", message |-> <<>>, videoId |-> Undefined,
     options |-> Options(Undefined, NoRange), originalError |-> NullError]

TranscriptError(message, videoId, options, originalError) ==
    [name |-> "TranscriptError", message |-> message, videoId |-> videoId,
     options |-> options, originalError |-> originalError]

IdleCall ==
    [pc |-> "idle", videoId |-> Undefined,
     options |-> Options(Undefined, NoRange),
     detectedLanguage |-> Undefined, languagesToTry |-> <<>>, i |-> 0,
     lastError |-> NullError, hasNoCaptionsError |-> FALSE,
     outcome |-> "none", result |-> <<>>, error |-> NoTranscriptError,
     \* history, not program state: whether the result came from the cache,
     \* the metadata calls and the getSubtitles calls made, the age of the
     \* key's cache entry at the lookup (NoNum for none), how the detection
     \* ended, the last answer of getSubtitles and the last message it threw,
     \* the slots whose calls were over when this one came to its end
     fromCache |-> FALSE, metaCalls |-> 0, probed |-> <<>>,
     entryAge |-> NoNum, detection |-> "none",
     lastAnswer |-> NoAnswer, lastThrown |-> <<>>, finishedAfter |-> {}]

\* the loop is entered: getSubtitles is called for languagesToTry[0]
BeginProbing(c, detected, list) ==
    [c EXCEPT !.pc = "probe", !.detectedLanguage = detected,
              !.languagesToTry = list, !.i = 0, !.probed = <<list[1]>>]

\* mutant: a hit returns the cached cues as they are
StartCallRawHit(videoId, options) ==
    LET cacheKey == generateTranscriptCacheKey(videoId, options.language)
        c == [IdleCall EXCEPT !.videoId = videoId, !.options = options]
    IN IF CacheHit(cacheKey)
       THEN [c EXCEPT !.pc = "done", !.outcome = "ok", !.fromCache = TRUE,
                      !.result = CacheValue(cacheKey)]
       ELSE IF TruthyStr(options.language)
       THEN BeginProbing(c, Undefined, LanguagesToTry(options.language, Undefined))
       ELSE [c EXCEPT !.pc = "videoDetails", !.metaCalls = 1]

\* getTranscript up to its first suspension: the cache lookup, then either the
\* first getSubtitles call or the getVideoDetails call of the detection
StartCall(videoId, options) ==
    LET cacheKey == generateTranscriptCacheKey(videoId, options.language)
        c == [IdleCall EXCEPT !.videoId = videoId, !.options = options]
    IN IF CacheHit(cacheKey)
       THEN [c EXCEPT !.pc = "done", !.outcome = "ok", !.fromCache = TRUE,
                      !.result = processTranscript(CacheValue(cacheKey), options)]
       ELSE IF TruthyStr(options.language)
       THEN BeginProbing(c, Undefined, LanguagesToTry(options.language, Undefined))
       ELSE [c EXCEPT !.pc = "videoDetails", !.metaCalls = 1]

\* mutant: a throw of getVideoDetails is not caught and ends the call
AfterVideoDetailsThrows(c, answer) ==
    IF answer.kind = "throw"
    THEN [c EXCEPT !.pc = "done", !.outcome = "error",
                   !.error = TranscriptError(answer.message, c.videoId,
                                             c.options, Error(answer.message))]
    ELSE IF ~TruthyStr(answer.channelId)
    THEN BeginProbing(c, Undefined, LanguagesToTry(c.options.language, Undefined))
    ELSE [c EXCEPT !.pc = "channelDetails", !.metaCalls = 2]

\* detectLanguageFromChannel after getVideoDetails: a throw is caught and yields
\* null, no channel id yields null, else getChannelDetails is called
AfterVideoDetails(c, answer) ==
    IF answer.kind = "throw" \/ ~TruthyStr(answer.channelId)
    THEN BeginProbing(c, Undefined, LanguagesToTry(c.options.language, Undefined))
    ELSE [c EXCEPT !.pc = "channelDetails", !.metaCalls = 2]

\* detectLanguageFromChannel after getChannelDetails, and the list built from it
AfterChannelDetails(c, answer) ==
    LET detected == IF answer.kind = "throw" \/ ~TruthyStr(answer.country)
                    THEN Undefined
                    ELSE countryToLanguage(answer.country)
    IN BeginProbing(c, detected, LanguagesToTry(c.options.language, detected))

\* mutant: the cause is always a fresh error, never the one that was caught
FailFreshCause(c) ==
    LET message == IF c.hasNoCaptionsError
                   THEN <<"No captions available for this video:", c.videoId>>
                   ELSE <<"Failed to fetch transcript in any available language:">>
                        \o (IF c.lastError.isNull THEN <<"Unknown error">>
                            ELSE c.lastError.message)
    IN [c EXCEPT !.pc = "done", !.outcome = "error",
                 !.error = TranscriptError(message, c.videoId, c.options,
                                           Error(<<"Unknown error">>))]

\* after the loop: the TranscriptError thrown
Fail(c) ==
    LET errorMessage == IF c.lastError.isNull \/ c.lastError.message = <<>>
                        THEN <<"Unknown error">>
                        ELSE c.lastError.message
        originalError == IF c.lastError.isNull THEN Error(errorMessage)
                         ELSE c.lastError
        message == IF c.hasNoCaptionsError
                   THEN <<"No captions available for this video:", c.videoId>>
                   ELSE <<"Failed to fetch transcript in any available language:">>
                        \o errorMessage
    IN [c EXCEPT !.pc = "done", !.outcome = "error",
                 !.error = TranscriptError(message, c.videoId, c.options,
                                           originalError)]

\* mutant: the loop index is advanced twice, so a candidate is passed over
AdvanceSkipOne(c) ==
    IF c.i + 2 < Len(c.languagesToTry)
    THEN [c EXCEPT !.i = c.i + 2,
                   !.probed = Append(c.probed, c.languagesToTry[c.i + 3])]
    ELSE Fail(c)

\* the next iteration of the loop, or its end
Advance(c) ==
    IF c.i + 1 < Len(c.languagesToTry)
    THEN [c EXCEPT !.i = c.i + 1,
                   !.probed = Append(c.probed, c.languagesToTry[c.i + 2])]
    ELSE Fail(c)

\* the attempt for languagesToTry[i] got its cues
Succeeded(answer) == answer.kind = "cues" /\ Len(answer.cues) > 0

\* mutant: an empty list counts as the cues of the attempt
AfterProbeAnyList(c, answer) ==
    IF answer.kind = "cues"
    THEN [c EXCEPT !.pc = "done", !.outcome = "ok",
                   !.result = processTranscript(answer.cues, c.options)]
    ELSE LET e == [c EXCEPT !.lastError = Error(answer.message)]
         IN IF isNoCaptionsError(answer.message)
            THEN Fail([e EXCEPT !.hasNoCaptionsError = TRUE])
            ELSE Advance(e)

\* one iteration of the loop after getSubtitles has resolved or thrown
AfterProbe(c, answer) ==
    IF Succeeded(answer)
    THEN [c EXCEPT !.pc = "done", !.outcome = "ok",
                   !.result = processTranscript(answer.cues, c.options)]
    ELSE IF answer.kind = "throw"
    THEN LET e == [c EXCEPT !.lastError = Error(answer.message)]
         IN IF isNoCaptionsError(answer.message)
            THEN Fail([e EXCEPT !.hasNoCaptionsError = TRUE])
            ELSE Advance(e)
    ELSE Advance(c)

\* mutant: the cues are set under the key of the succeeded language only
CacheAfterProbeLangOnly(c, answer) ==
    IF Succeeded(answer)
    THEN CacheSet(cache,
                  generateTranscriptCacheKey(c.videoId, c.languagesToTry[c.i + 1]),
                  answer.cues)
    ELSE cache

\* mutant: whatever list getSubtitles resolves with is cached, an empty one too
CacheAfterProbeAnyList(c, answer) ==
    IF answer.kind = "cues"
    THEN LET lang == c.languagesToTry[c.i + 1]
         IN CacheSet(CacheSet(cache,
                              generateTranscriptCacheKey(c.videoId, lang),
                              answer.cues),
                     generateTranscriptCacheKey(c.videoId, c.options.language),
                     answer.cues)
    ELSE cache

\* the cache after that iteration: on success the cues are set under the key of
\* the language that succeeded and under the key of the request
CacheAfterProbe(c, answer) ==
    IF Succeeded(answer)
    THEN LET lang == c.languagesToTry[c.i + 1]
             cacheKeyWithLang == generateTranscriptCacheKey(c.videoId, lang)
             cacheKey == generateTranscriptCacheKey(c.videoId, c.options.language)
         IN CacheSet(CacheSet(cache, cacheKeyWithLang, answer.cues),
                     cacheKey, answer.cues)
    ELSE cache

----------------------------------------------------------------------------
(* getEnhancedTranscript and the /api/enhanced-transcript endpoint *)

\* an error that is not a TranscriptError, as a provider throws it
RawError(message) ==
    [name |-> "Error", message |-> message, videoId |-> Undefined,
     options |-> Options(Undefined, NoRange), originalError |-> NullError]

NoFormatted ==
    [segments |-> <<>>, totalSegments |-> 0, duration |-> quotientBy1000(0),
     format |-> "none", hasMetadata |-> FALSE, metadata |-> <<>>,
     hasText |-> FALSE, text |-> <<>>]

NoResponse == [status |-> 0, error |-> <<>>]

IdleRequest ==
    [pc |-> "idle", op |-> "none", count |-> NoNum,
     videoIds |-> <<>>, options |-> Options(Undefined, NoRange),
     combinedSegments |-> <<>>, videoDetails |-> <<>>, pending |-> {},
     outcome |-> "none", result |-> NoFormatted, error |-> NoTranscriptError,
     response |-> NoResponse]

\* the options the endpoint builds from the request body: the segment option
\* is passed on only when the body gives both its method and its count
optionsOfBody(body) ==
    TranscriptOptions(body.language, body.filters.timeRange,
                      body.filters.search,
                      IF /\ TruthyStr(body.filters.segment.method)
                         /\ TruthyNum(body.filters.segment.count)
                      THEN Segment(body.filters.segment.method,
                                   body.filters.segment.count)
                      ELSE NoSegment,
                      body.format, body.includeMetadata)

\* the cues of one video in the combined list: each carries the video's id
\* when the request names more than one video
tagged(segments, videoId, several) ==
    [k \in DOMAIN segments |->
        IF several
        THEN [text |-> segments[k].text, offset |-> segments[k].offset,
              duration |-> segments[k].duration, videoId |-> videoId]
        ELSE segments[k]]

\* mutant: the transcripts are put together last to first
combineBackwards(videoIds, transcripts) ==
    flatBackwards([k \in DOMAIN videoIds |->
                     tagged(transcripts[k], videoIds[k], Len(videoIds) > 1)])

\* combinedSegments: the transcripts in the order of the video ids
combine(videoIds, transcripts) ==
    flat([k \in DOMAIN videoIds |->
            tagged(transcripts[k], videoIds[k], Len(videoIds) > 1)])

\* what getEnhancedTranscript makes of the transcripts that its getTranscript
\* calls return, each already processed: they are combined and the whole is
\* processed again
processedTranscriptOf(videoIds, transcripts, options) ==
    processTranscript(combine(videoIds, transcripts), options)

\* the catch block of the endpoint: 404 for a message that tells of missing
\* captions or of a fetch that failed in every language, else 500
errorResponse(message) ==
    IF /\ message # <<>>
       /\ message[1] \in {"No captions available for this video:",
                           "Failed to fetch transcript in any available language:"}
    THEN [status |-> 404, error |-> message]
    ELSE [status |-> 500,
          error |-> IF message = <<>> THEN <<"Internal server error">>
                    ELSE message]

\* getEnhancedTranscript throws and the endpoint answers with the error
Thrown(e, error) ==
    [e EXCEPT !.pc = "done", !.outcome = "error", !.error = error,
              !.response = errorResponse(error.message)]

\* the endpoint up to the call of getEnhancedTranscript: a body without video
\* ids is answered with 400
Received(body) ==
    IF Len(body.videoIds) = 0
    THEN [IdleRequest EXCEPT
            !.pc = "done", !.outcome = "rejected",
            !.response = [status |-> 400,
                          error |-> <<"videoIds array is required">>]]
    ELSE [IdleRequest EXCEPT
            !.pc = "transcripts", !.videoIds = body.videoIds,
            !.options = optionsOfBody(body)]

\* mutant: a rejected call is left out and the other transcripts are combined
AfterTranscriptsPartial(e, cs) ==
    [e EXCEPT
       !.pc = "videoDetails",
       !.combinedSegments =
          combine(e.videoIds, [k \in DOMAIN e.videoIds |-> cs[k].result]),
       !.videoDetails = [k \in DOMAIN e.videoIds |-> NoVideoResponse],
       !.pending = DOMAIN e.videoIds]

\* after Promise.all of the getTranscript calls: the first rejection is
\* thrown on; else the transcripts are combined and getVideoDetails is called
\* for every video
AfterTranscripts(e, cs) ==
    LET failed == {k \in DOMAIN e.videoIds : cs[k].outcome = "error"}
    IN IF failed # {}
       THEN Thrown(e, cs[CHOOSE k \in failed : TRUE].error)
       ELSE [e EXCEPT
               !.pc = "videoDetails",
               !.combinedSegments =
                  combine(e.videoIds, [k \in DOMAIN e.videoIds |-> cs[k].result]),
               !.videoDetails = [k \in DOMAIN e.videoIds |-> NoVideoResponse],
               !.pending = DOMAIN e.videoIds]

\* after a getVideoDetails call: a rejection is thrown on; once all have
\* resolved the combined cues are processed and formatted
AfterDetails(e, k, answer) ==
    LET videoDetails == [e.videoDetails EXCEPT ![k] = answer.response]
        processedTranscript == processTranscript(e.combinedSegments, e.options)
    IN IF answer.kind = "throw" THEN Thrown(e, RawError(answer.message))
       ELSE IF e.pending = {k}
       THEN [e EXCEPT
               !.pc = "done", !.outcome = "ok", !.pending = {},
               !.videoDetails = videoDetails,
               !.result = formatTranscript(processedTranscript, videoDetails,
                                           e.options),
               !.response = [status |-> 200, error |-> <<>>]]
       ELSE [e EXCEPT !.videoDetails = videoDetails, !.pending = @ \ {k}]

----------------------------------------------------------------------------
(* Actions *)

\* a request names no language or the first of the pool; the pure harness
\* below builds the candidate list for every other request
RequestLanguages == {Undefined, "en"}
RequestRanges == {NoRange, TimeRange(1, NoNum)}
TickSteps == {3599, 3601}

\* the providers are not held to one answer
Unfixed == [kind |-> "any"]

FnPending == [done |-> FALSE, value |-> <<>>]
FnIdle == fnOp = "none" /\ fnIn = <<>> /\ fnOut = FnPending

Init ==
    /\ now = 0
    /\ cache = [k \in {} |-> NullError]
    /\ slots = {1}
    /\ calls = [s \in slots |-> IdleCall]
    /\ started = 0
    /\ FnIdle
    /\ source = Unfixed
    /\ enhanced = IdleRequest

\* the other slots whose calls are over
Finished(s) == {t \in slots \ {s} : calls[t].pc = "done"}

\* a caller invokes getTranscript(videoId, options)
Start(s, videoId, options) ==
    LET cacheKey == generateTranscriptCacheKey(videoId, options.language)
        age == IF cacheKey \in DOMAIN cache THEN now - cache[cacheKey].t
               ELSE NoNum
    IN /\ calls[s].pc = "idle"
       /\ started < MaxCalls
       /\ calls' = [calls EXCEPT
                      ![s] = [StartCall(videoId, options) EXCEPT
                                !.entryAge = age,
                                !.finishedAfter =
                                   IF CacheHit(cacheKey) THEN Finished(s)
                                   ELSE {}]]
       /\ started' = started + 1
       /\ UNCHANGED <<now, cache, slots, fnOp, fnIn, fnOut, enhanced, source>>

\* getVideoDetails resolves or throws
VideoDetailsReturn(s, answer) ==
    LET ended == IF answer.kind = "throw" \/ answer.channelId = Undefined
                 THEN "failed" ELSE "none"
    IN /\ calls[s].pc = "videoDetails"
       /\ calls' = [calls EXCEPT
                      ![s] = [AfterVideoDetails(calls[s], answer) EXCEPT
                                !.detection = ended]]
       /\ UNCHANGED <<now, cache, slots, started, fnOp, fnIn, fnOut, enhanced, source>>

\* getChannelDetails resolves or throws
ChannelDetailsReturn(s, answer) ==
    LET ended == IF \/ answer.kind = "throw"
                    \/ answer.country = Undefined
                    \/ answer.country \notin DOMAIN countryLangMap
                 THEN "failed" ELSE "hint"
    IN /\ calls[s].pc = "channelDetails"
       /\ calls' = [calls EXCEPT
                      ![s] = [AfterChannelDetails(calls[s], answer) EXCEPT
                                !.detection = ended]]
       /\ UNCHANGED <<now, cache, slots, started, fnOp, fnIn, fnOut, enhanced, source>>

\* the iteration of the loop that follows an answer of getSubtitles
ProbeAnswered(s, answer) ==
    /\ calls' = [calls EXCEPT
                   ![s] = [AfterProbe(calls[s], answer) EXCEPT
                             !.lastAnswer = answer,
                             !.lastThrown =
                                IF answer.kind = "throw"
                                THEN answer.message ELSE @,
                             !.finishedAfter =
                                IF AfterProbe(calls[s], answer).pc = "done"
                                THEN Finished(s) ELSE {}]]
    /\ cache' = CacheAfterProbe(calls[s], answer)

\* getSubtitles resolves or throws for the language being tried
ProbeReturn(s) ==
    /\ calls[s].pc = "probe"
    /\ \E answer \in SourceAnswers(calls[s].videoId,
                                   calls[s].languagesToTry[calls[s].i + 1]) :
          ProbeAnswered(s, answer)
    /\ UNCHANGED <<now, slots, started, fnOp, fnIn, fnOut, enhanced, source>>

\* the caller takes the result or the error
Return(s) ==
    /\ calls[s].pc = "done"
    /\ calls' = [calls EXCEPT ![s] = IdleCall]
    /\ UNCHANGED <<now, cache, slots, started, fnOp, fnIn, fnOut, enhanced, source>>

\* time passes
Tick(d) ==
    /\ now + d <= MaxTime
    /\ now' = now + d
    /\ UNCHANGED <<cache, calls, slots, started, fnOp, fnIn, fnOut, enhanced, source>>

Next ==
    \/ \E s \in slots, v \in Videos, l \in RequestLanguages, r \in RequestRanges :
         Start(s, v, Options(l, r))
    \/ \E s \in slots, a \in VideoAnswers : VideoDetailsReturn(s, a)
    \/ \E s \in slots, a \in ChannelAnswers : ChannelDetailsReturn(s, a)
    \/ \E s \in slots : ProbeReturn(s)
    \/ \E s \in slots : Return(s)
    \/ \E d \in TickSteps : Tick(d)

Spec == Init /\ [][Next]_vars

----------------------------------------------------------------------------
(* Two getTranscript calls side by side *)

\* the calls ask for the same video, with or without a language
ParVideos == {"v1"}

InitPar ==
    /\ now = 0
    /\ cache = [k \in {} |-> NullError]
    /\ slots = {1, 2}
    /\ calls = [s \in slots |-> IdleCall]
    /\ started = 0
    /\ FnIdle
    /\ source = Unfixed
    /\ enhanced = IdleRequest

NextPar ==
    \/ \E s \in slots, v \in ParVideos, l \in RequestLanguages :
         Start(s, v, Options(l, NoRange))
    \/ \E s \in slots, a \in VideoAnswers : VideoDetailsReturn(s, a)
    \/ \E s \in slots, a \in ChannelAnswers : ChannelDetailsReturn(s, a)
    \/ \E s \in slots : ProbeReturn(s)
    \/ \E s \in slots : Return(s)

SpecPar == InitPar /\ [][NextPar]_vars

----------------------------------------------------------------------------
(* getTranscript over a cache whose get and set may throw *)

\* message of a cache failure
CacheFailureMsg == <<"cache", "failure">>

InitFaulty ==
    /\ now = 0
    /\ cache = [k \in {} |-> NullError]
    /\ slots = {1}
    /\ calls = [s \in slots |-> IdleCall]
    /\ started = 0
    /\ FnIdle
    /\ source = Unfixed
    /\ enhanced = IdleRequest

\* getTranscript is invoked and transcriptCache.get throws: the lookup stands
\* outside every try block, so the call ends with what the cache threw
StartCacheThrows(s, videoId, options) ==
    /\ calls[s].pc = "idle"
    /\ started < MaxCalls
    /\ calls' = [calls EXCEPT
                   ![s] = [IdleCall EXCEPT
                             !.videoId = videoId, !.options = options,
                             !.pc = "done", !.outcome = "error",
                             !.error = RawError(CacheFailureMsg)]]
    /\ started' = started + 1
    /\ UNCHANGED <<now, cache, slots, fnOp, fnIn, fnOut, enhanced, source>>

\* getSubtitles resolves with cues and transcriptCache.set throws, at the
\* first set or at the second: the catch block of the loop takes it for a
\* failure of the attempt
ProbeReturnCacheThrows(s) ==
    /\ calls[s].pc = "probe"
    /\ \E answer \in SourceAnswers(calls[s].videoId,
                                   calls[s].languagesToTry[calls[s].i + 1]),
          atFirst \in BOOLEAN :
          LET thrown == [kind |-> "throw", message |-> CacheFailureMsg]
              lang == calls[s].languagesToTry[calls[s].i + 1]
          IN /\ Succeeded(answer)
             /\ calls' = [calls EXCEPT
                            ![s] = [AfterProbe(calls[s], thrown) EXCEPT
                                      !.lastAnswer = answer,
                                      !.lastThrown = CacheFailureMsg]]
             /\ cache' = IF atFirst THEN cache
                         ELSE CacheSet(cache,
                                       generateTranscriptCacheKey(calls[s].videoId,
                                                                  lang),
                                       answer.cues)
    /\ UNCHANGED <<now, slots, started, fnOp, fnIn, fnOut, enhanced, source>>

NextFaulty ==
    \/ \E s \in slots, v \in ParVideos, l \in RequestLanguages :
         Start(s, v, Options(l, NoRange))
    \/ \E s \in slots, v \in ParVideos, l \in RequestLanguages :
         StartCacheThrows(s, v, Options(l, NoRange))
    \/ \E s \in slots, a \in VideoAnswers : VideoDetailsReturn(s, a)
    \/ \E s \in slots, a \in ChannelAnswers : ChannelDetailsReturn(s, a)
    \/ \E s \in slots : ProbeReturn(s)
    \/ \E s \in slots : ProbeReturnCacheThrows(s)
    \/ \E s \in slots : Return(s)

SpecFaulty == InitFaulty /\ [][NextFaulty]_vars

----------------------------------------------------------------------------
(* The multi-video request: its getTranscript calls run side by side *)

\* the video ids of a request: none, one, two, the same one twice
EnhancedVideoIds ==
    {<<>>, <<"v1">>, <<"v1", "v2">>, <<"v2", "v1">>, <<"v1", "v1">>}

\* searches of a request: none, an empty query, a query of white space, a
\* query that the cues of one video contain
EnhancedSearches ==
    {NoSearch, Search(<<>>, FALSE, NoNum), Search(<<" ">>, FALSE, NoNum),
     Search(<<"v1">>, FALSE, 0)}

EnhancedBodies ==
    [videoIds : EnhancedVideoIds, language : {"en"},
     format : {Undefined, "timestamped"}, includeMetadata : {TRUE},
     filters : [timeRange : {NoRange}, search : EnhancedSearches,
                segment : {NoSegment, Segment("equal", NoNum)}]]

\* what getVideoDetails may do for the metadata of the result
DetailsAnswers(videoId) ==
    {[kind |-> "throw", message |-> QuotaMsg, response |-> NoVideoResponse],
     [kind |-> "ok", message |-> <<>>, response |-> NoVideoResponse],
     [kind |-> "ok", message |-> <<>>, response |-> VideoResponse(videoId)]}

InitEnhanced ==
    /\ now = 0
    /\ cache = [k \in {} |-> NullError]
    /\ slots = {1, 2}
    /\ calls = [s \in slots |-> IdleCall]
    /\ started = 0
    /\ FnIdle
    /\ source = Unfixed
    /\ enhanced = IdleRequest

\* POST /api/enhanced-transcript: the body is checked, and getEnhancedTranscript
\* starts one getTranscript call per video id, each up to its first suspension
PostEnhancedTranscript(body) ==
    LET e == Received(body)
        age(k) == LET cacheKey == generateTranscriptCacheKey(body.videoIds[k],
                                                            e.options.language)
                  IN IF cacheKey \in DOMAIN cache THEN now - cache[cacheKey].t
                     ELSE NoNum
        started_(k) == StartCall(body.videoIds[k], e.options)
    IN /\ enhanced.pc = "idle"
       /\ \A s \in slots : calls[s].pc = "idle"
       /\ started < MaxCalls /\ started + Len(body.videoIds) <= MaxCalls
       /\ enhanced' = e
       /\ calls' = [s \in slots |->
                      IF s \in DOMAIN body.videoIds
                      THEN [started_(s) EXCEPT
                              !.entryAge = age(s),
                              !.finishedAfter =
                                 IF started_(s).pc = "done"
                                 THEN {t \in 1..(s - 1) : started_(t).pc = "done"}
                                 ELSE {}]
                      ELSE calls[s]]
       /\ started' = started + Len(body.videoIds)
       /\ UNCHANGED <<now, cache, slots, fnOp, fnIn, fnOut, source>>

\* Promise.all of the getTranscript calls is settled: one call has failed, or
\* all have their cues
TranscriptsSettled ==
    /\ enhanced.pc = "transcripts"
    /\ \/ \E k \in DOMAIN enhanced.videoIds :
             calls[k].pc = "done" /\ calls[k].outcome = "error"
       \/ \A k \in DOMAIN enhanced.videoIds : calls[k].pc = "done"

\* getEnhancedTranscript goes on after Promise.all
TranscriptsReturn ==
    /\ TranscriptsSettled
    /\ enhanced' = AfterTranscripts(enhanced, calls)
    /\ UNCHANGED <<now, cache, calls, slots, started, fnOp, fnIn, fnOut, source>>

\* getSubtitles answers one of the calls with cues, with an empty list or
\* with the no-captions signal; a settled Promise.all is handled first
SteadyProbeReturn(s) ==
    /\ ~TranscriptsSettled
    /\ calls[s].pc = "probe"
    /\ \E answer \in SourceAnswers(calls[s].videoId,
                                   calls[s].languagesToTry[calls[s].i + 1]) :
          /\ answer.kind = "throw" => answer.message = NoCaptionsMsg(calls[s].videoId)
          /\ ProbeAnswered(s, answer)
    /\ UNCHANGED <<now, slots, started, fnOp, fnIn, fnOut, enhanced, source>>

\* getVideoDetails resolves or throws for the k-th video of the request
DetailsReturn(k) ==
    /\ enhanced.pc = "videoDetails"
    /\ k \in enhanced.pending
    /\ \E answer \in DetailsAnswers(enhanced.videoIds[k]) :
          enhanced' = AfterDetails(enhanced, k, answer)
    /\ UNCHANGED <<now, cache, calls, slots, started, fnOp, fnIn, fnOut, source>>

\* the response is sent; calls still running are left to themselves
EnhancedReturn ==
    /\ enhanced.pc = "done"
    /\ \A s \in slots : calls[s].pc \in {"idle", "done"}
    /\ enhanced' = IdleRequest
    /\ calls' = [s \in slots |-> IdleCall]
    /\ UNCHANGED <<now, cache, slots, started, fnOp, fnIn, fnOut, source>>

NextEnhanced ==
    \/ \E body \in EnhancedBodies : PostEnhancedTranscript(body)
    \/ TranscriptsReturn
    \/ \E s \in slots : SteadyProbeReturn(s)
    \/ \E k \in slots : DetailsReturn(k)
    \/ EnhancedReturn

SpecEnhanced == InitEnhanced /\ [][NextEnhanced]_vars

----------------------------------------------------------------------------
(* The /api/get-video-transcript endpoint over getTranscript *)

\* bodies of a request: with and without a video id and a language
TranscriptBodies == [videoId : {Undefined, "v1"}, language : {Undefined, "en"}]

\* the legacy signature getTranscript(videoId, language): a string stands for
\* {language: it}, nothing for {}
optionsOfLanguage(langOrOptions) == Options(langOrOptions, NoRange)

InitRest ==
    /\ now = 0
    /\ cache = [k \in {} |-> NullError]
    /\ slots = {1}
    /\ calls = [s \in slots |-> IdleCall]
    /\ started = 0
    /\ FnIdle
    /\ source = Unfixed
    /\ enhanced = IdleRequest

\* POST /api/get-video-transcript: a body without a video id is answered with
\* 400, else getTranscript is called and runs up to its first suspension
PostGetVideoTranscript(body) ==
    LET options == optionsOfLanguage(body.language)
        cacheKey == generateTranscriptCacheKey(body.videoId, options.language)
        age == IF cacheKey \in DOMAIN cache THEN now - cache[cacheKey].t
               ELSE NoNum
    IN /\ enhanced.pc = "idle"
       /\ calls[1].pc = "idle"
       /\ started < MaxCalls
       /\ IF ~TruthyStr(body.videoId)
          THEN /\ enhanced' = [IdleRequest EXCEPT
                                 !.pc = "done", !.outcome = "rejected",
                                 !.response = [status |-> 400,
                                               error |-> <<"videoId is required">>]]
               /\ UNCHANGED calls
          ELSE /\ enhanced' = [IdleRequest EXCEPT
                                 !.pc = "getTranscript",
                                 !.videoIds = <<body.videoId>>,
                                 !.options = options]
               /\ calls' = [calls EXCEPT
                              ![1] = [StartCall(body.videoId, options) EXCEPT
                                        !.entryAge = age]]
       /\ started' = started + 1
       /\ UNCHANGED <<now, cache, slots, fnOp, fnIn, fnOut, source>>

\* getTranscript is over: its cues are sent with 200, its error goes through
\* the catch block of the endpoint
GetVideoTranscriptReturn ==
    /\ enhanced.pc = "getTranscript"
    /\ calls[1].pc = "done"
    /\ enhanced' = IF calls[1].outcome = "error"
                   THEN Thrown(enhanced, calls[1].error)
                   ELSE [enhanced EXCEPT
                           !.pc = "done", !.outcome = "ok",
                           !.combinedSegments = calls[1].result,
                           !.response = [status |-> 200, error |-> <<>>]]
    /\ UNCHANGED <<now, cache, calls, slots, started, fnOp, fnIn, fnOut, source>>

NextRest ==
    \/ \E body \in TranscriptBodies : PostGetVideoTranscript(body)
    \/ \E s \in slots, a \in VideoAnswers : VideoDetailsReturn(s, a)
    \/ \E s \in slots, a \in ChannelAnswers : ChannelDetailsReturn(s, a)
    \/ \E s \in slots : ProbeReturn(s)
    \/ GetVideoTranscriptReturn
    \/ EnhancedReturn

SpecRest == InitRest /\ [][NextRest]_vars

----------------------------------------------------------------------------
(* getTranscript against providers whose answers do not change *)

\* what the providers hold: the languages of the caption tracks of each video
\* and the country of its channel
HeldSources ==
    {[kind |-> "held",
      tracks |-> [v \in Videos |-> IF v = "v1" THEN t ELSE {"hi"}],
      country |-> [v \in Videos |-> IF v = "v1" THEN c ELSE Undefined]] :
        t \in SUBSET {"en", "ko"}, c \in {Undefined, "KR"}}

\* getSubtitles of a source that holds `held`: the cues of a track it holds;
\* for a video without tracks the no-captions error, and for a language
\* without a track the error that names the language
heldSubtitles(held, videoId, lang) ==
    IF lang \in held.tracks[videoId]
    THEN [kind |-> "cues", cues |-> Captions(videoId, lang)]
    ELSE [kind |-> "throw",
          message |-> IF held.tracks[videoId] = {} THEN NoCaptionsMsg(videoId)
                      ELSE LangMsg(lang, videoId)]

heldVideoDetails(held, videoId) ==
    [kind |-> "ok", message |-> <<>>, channelId |-> "ch1"]

heldChannelDetails(held, videoId) ==
    [kind |-> "ok", message |-> <<>>, country |-> held.country[videoId]]

\* a request names no language, a language of the pool, or 'default'
HeldRequestLanguages == {Undefined, "en", "ko", "default"}

InitHeld ==
    /\ now = 0
    /\ cache = [k \in {} |-> NullError]
    /\ slots = {1}
    /\ calls = [s \in slots |-> IdleCall]
    /\ started = 0
    /\ FnIdle
    /\ enhanced = IdleRequest
    /\ source \in HeldSources

HeldVideoDetailsReturn(s) ==
    /\ calls[s].pc = "videoDetails"
    /\ VideoDetailsReturn(s, heldVideoDetails(source, calls[s].videoId))

HeldChannelDetailsReturn(s) ==
    /\ calls[s].pc = "channelDetails"
    /\ ChannelDetailsReturn(s, heldChannelDetails(source, calls[s].videoId))

HeldProbeReturn(s) ==
    /\ calls[s].pc = "probe"
    /\ ProbeAnswered(s, heldSubtitles(source, calls[s].videoId,
                                      calls[s].languagesToTry[calls[s].i + 1]))
    /\ UNCHANGED <<now, slots, started, fnOp, fnIn, fnOut, enhanced, source>>

NextHeld ==
    \/ \E s \in slots, v \in Videos, l \in HeldRequestLanguages,
          r \in RequestRanges :
         Start(s, v, Options(l, r))
    \/ \E s \in slots : HeldVideoDetailsReturn(s)
    \/ \E s \in slots : HeldChannelDetailsReturn(s)
    \/ \E s \in slots : HeldProbeReturn(s)
    \/ \E s \in slots : Return(s)
    \/ \E d \in TickSteps : Tick(d)

SpecHeld == InitHeld /\ [][NextHeld]_vars

----------------------------------------------------------------------------
(* getKeyMomentsTranscript and getSegmentedTranscript over getTranscript *)

NoTranscriptMsg == <<"No transcript available for this video">>

InitReport ==
    /\ now = 0
    /\ cache = [k \in {} |-> NullError]
    /\ slots = {1}
    /\ calls = [s \in slots |-> IdleCall]
    /\ started = 0
    /\ FnIdle
    /\ source = Unfixed
    /\ enhanced = IdleRequest

\* getKeyMomentsTranscript(videoId, count) or getSegmentedTranscript(videoId,
\* count) is invoked: getTranscript(videoId) runs up to its first suspension
CallReport(op, videoId, count) ==
    LET options == optionsOfLanguage(Undefined)
        cacheKey == generateTranscriptCacheKey(videoId, options.language)
        age == IF cacheKey \in DOMAIN cache THEN now - cache[cacheKey].t
               ELSE NoNum
    IN /\ enhanced.pc = "idle"
       /\ calls[1].pc = "idle"
       /\ started < MaxCalls
       /\ enhanced' = [IdleRequest EXCEPT
                         !.pc = "getTranscript", !.op = op, !.count = count,
                         !.videoIds = <<videoId>>, !.options = options]
       /\ calls' = [calls EXCEPT
                      ![1] = [StartCall(videoId, options) EXCEPT
                                !.entryAge = age]]
       /\ started' = started + 1
       /\ UNCHANGED <<now, cache, slots, fnOp, fnIn, fnOut, source>>

\* getTranscript is over: its error is thrown on, else getVideoDetails is
\* called
ReportTranscriptReturn ==
    /\ enhanced.pc = "getTranscript" /\ enhanced.op # "none"
    /\ calls[1].pc = "done"
    /\ enhanced' = IF calls[1].outcome = "error"
                   THEN [enhanced EXCEPT
                           !.pc = "done", !.outcome = "error",
                           !.error = calls[1].error]
                   ELSE [enhanced EXCEPT
                           !.pc = "videoDetails",
                           !.combinedSegments = calls[1].result,
                           !.pending = {1}]
    /\ UNCHANGED <<now, cache, calls, slots, started, fnOp, fnIn, fnOut, source>>

\* what follows getVideoDetails: its error is thrown on; an empty transcript
\* is an error; else the report is built
AfterReportDetails(e, answer) ==
    LET transcriptData == e.combinedSegments
        failed(error) ==
            [e EXCEPT !.pc = "done", !.outcome = "error", !.pending = {},
                      !.error = error]
    IN IF answer.kind = "throw" THEN failed(RawError(answer.message))
       ELSE IF Len(transcriptData) = 0 THEN failed(RawError(NoTranscriptMsg))
       ELSE [e EXCEPT
               !.pc = "done", !.outcome = "ok", !.pending = {},
               !.videoDetails = <<answer.response>>,
               !.result =
                  IF e.op = "keyMoments"
                  THEN keyMomentsTranscript(transcriptData, answer.response,
                                            e.count)
                  ELSE segmentedTranscript(transcriptData, answer.response,
                                           e.count)]

\* getVideoDetails resolves or throws
ReportDetailsReturn ==
    /\ enhanced.pc = "videoDetails" /\ enhanced.op # "none"
    /\ \E answer \in DetailsAnswers(enhanced.videoIds[1]) :
          enhanced' = AfterReportDetails(enhanced, answer)
    /\ UNCHANGED <<now, cache, calls, slots, started, fnOp, fnIn, fnOut, source>>

NextReport ==
    \/ \E op \in {"keyMoments", "segmented"}, count \in {1, 4} :
         CallReport(op, "v1", count)
    \/ \E s \in slots, a \in VideoAnswers : VideoDetailsReturn(s, a)
    \/ \E s \in slots, a \in ChannelAnswers : ChannelDetailsReturn(s, a)
    \/ \E s \in slots : ProbeReturn(s)
    \/ ReportTranscriptReturn
    \/ ReportDetailsReturn
    \/ EnhancedReturn

SpecReport == InitReport /\ [][NextReport]_vars

----------------------------------------------------------------------------
(* The pure functions applied to inputs drawn from bounded sets *)

\* requested languages: none, the empty string, every code of the pool, and
\* codes outside it
ResolveLanguages ==
    {Undefined, ""} \cup Range(fallbackLanguages) \cup {"th", "EN", "default"}

\* country hints: none, the empty string, every code of the table, codes in
\* other letter case and a code off the table
ResolveCountries ==
    {Undefined, "", "ZZ", "kr", "us", "Jp"} \cup DOMAIN countryLangMap

FnCues == {Cue("a", o, d) : o \in {0, 1500, 2000}, d \in {0, 500}}

FnCueLists == UNION {[1..k -> FnCues] : k \in 0..MaxLen}

FnRanges ==
    {TimeRange(st, en) : st \in {NoNum, 0, 1, 2}, en \in {NoNum, 0, 1, 2, 3}}

\* texts that are searched: one in lower case, one in upper case, one with a
\* blank in it
SearchTexts == {<<"a", "b">>, <<"A">>, <<"b", " ">>}

\* a cue list of the given texts, one cue a second
CuesOfTexts(texts) ==
    [k \in DOMAIN texts |-> Cue(texts[k], (k - 1) * 1000, 1000)]

TextedCueLists ==
    {CuesOfTexts(texts) : texts \in UNION {[1..k -> SearchTexts] : k \in 0..MaxCues}}

\* queries: empty, white space, matching in either case, matching a longer
\* text only, matching nothing
SearchQueries == {<<>>, <<" ">>, <<"a">>, <<"A">>, <<"a", "b">>, <<"c">>}

FnSearches ==
    {Search(q, cs, cl) :
        q \in SearchQueries, cs \in BOOLEAN, cl \in {NoNum, 0, 1, 2}}

\* cue lists of short, long and zero durations, one cue a second, and the
\* list of 20 cues evenly spaced across 100 seconds
DurationCueLists ==
    {[k \in DOMAIN durations |-> Cue(<<"a">>, (k - 1) * 1000, durations[k])] :
        durations \in UNION {[1..k -> {0, 1000, 3000}] : k \in 0..MaxCues}}
    \cup {[k \in 1..20 |-> Cue(<<"a">>, (k - 1) * 5000, 5000)]}

FnSegments ==
    {Segment(m, c) :
        m \in {Undefined, "equal", "smart"}, c \in {NoNum} \cup 0..MaxCues}

\* cue lists in non-decreasing offset order: a cue lasts a second and the
\* next one starts at its end, or it lasts no time and the next one starts
\* with it
ProcessCueKinds ==
    [text : {<<"a">>, <<"b">>}, duration : {0, 1000}]

OrderedCuesOf(kinds) ==
    [k \in DOMAIN kinds |->
        Cue(kinds[k].text, sumDuration(kinds, k - 1), kinds[k].duration)]

OrderedCueLists ==
    {OrderedCuesOf(kinds) :
        kinds \in UNION {[1..k -> ProcessCueKinds] : k \in 0..MaxCues}}

ProcessOptions ==
    {TranscriptOptions(Undefined, r, q, g, Undefined, FALSE) :
        r \in {NoRange, TimeRange(1, NoNum)},
        q \in {NoSearch, Search(<<"a">>, FALSE, 1)},
        g \in {NoSegment, Segment("equal", 2), Segment("smart", 2)}}

\* cues that start at 0:00, at 1:05 and at 75:30 and last no time or a
\* second and a half
FormatCues ==
    {Cue(<<"h", "i">>, o, d) : o \in {0, 65000, 4530000}, d \in {0, 1500}}

FormatCueLists == UNION {[1..k -> FormatCues] : k \in 0..MaxLen}

FormatOptions ==
    {TranscriptOptions(Undefined, NoRange, NoSearch, NoSegment, f, m) :
        f \in {Undefined, "raw", "timestamped", "merged"}, m \in BOOLEAN}

FormatVideoDetails ==
    {<<VideoResponse("v1")>>, <<NoVideoResponse>>,
     <<VideoResponse("v1"), NoVideoResponse, VideoResponse("v2")>>}

\* a text of n characters
TextOf(n) == [k \in 1..n |-> "x"]

\* the cue at place k (from 1) of a list whose cues are 13 seconds apart
SpacedCue(text, k) == Cue(text, (k - 1) * 13000, 13000)

\* kinds of paragraphs of five cues: the texts joined by blanks make `length`
\* characters, and a padded one starts with a blank that the trim takes off
ParagraphKinds ==
    {[length |-> n, padded |-> FALSE] : n \in {99, 100, 101, 120}}
    \cup {[length |-> 101, padded |-> TRUE]}

\* the text of the j-th cue of a paragraph of that kind
ParagraphCueText(kind, j) ==
    IF j = 1 /\ kind.padded THEN <<" ">> \o TextOf(18)
    ELSE IF j < 5 THEN TextOf(19)
    ELSE TextOf(kind.length - 80)

\* cues left over after the last full paragraph: none, one without text, two
KeyMomentsTails == {<<>>, << <<>> >>, <<TextOf(3), TextOf(3)>>}

\* the cue list of paragraphs of the given kinds and a tail
KeyMomentsCuesOf(kinds, tail) ==
    [k \in 1..(5 * Len(kinds) + Len(tail)) |->
        SpacedCue(IF k <= 5 * Len(kinds)
                  THEN ParagraphCueText(kinds[((k - 1) \div 5) + 1],
                                        ((k - 1) % 5) + 1)
                  ELSE tail[k - 5 * Len(kinds)],
                  k)]

\* a long list: n cues of 20 to 22 characters
LongCueList(n) == [k \in 1..n |-> SpacedCue(TextOf(20 + (k % 3)), k)]

\* up to three paragraphs of five cues and a tail, and the lists of 93 and of
\* 135 cues, whose paragraphs are of six and of eight cues
KeyMomentsCueLists ==
    ({KeyMomentsCuesOf(kinds, tail) :
         kinds \in UNION {[1..k -> ParagraphKinds] : k \in 0..3},
         tail \in KeyMomentsTails} \ {<<>>})
    \cup {LongCueList(93), LongCueList(135)}

MaxMomentsValues == {0, 1, 2, 5}

SegmentCounts == 1..4

\* the transcripts of a request of one video, and of a request of two videos
\* of up to three cues each
ReprocessTranscripts ==
    {<<segments>> : segments \in OrderedCueLists}
    \cup {<<first, second>> :
             first, second \in {segments \in OrderedCueLists :
                                   /\ Len(segments) <= 3
                                   /\ \A k \in DOMAIN segments :
                                         segments[k].duration = 1000}}

ReprocessOptions ==
    {TranscriptOptions(Undefined, r, q, g, Undefined, FALSE) :
        r \in {NoRange, TimeRange(1, NoNum)},
        q \in {NoSearch} \cup {Search(<<"a">>, FALSE, c) : c \in 0..2},
        g \in {NoSegment, Segment("smart", 2)}}

InitFn ==
    /\ now = 0
    /\ cache = [k \in {} |-> NullError]
    /\ slots = {1}
    /\ calls = [s \in slots |-> IdleCall]
    /\ started = 0
    /\ enhanced = IdleRequest
    /\ source = Unfixed
    /\ fnOut = FnPending
    /\ \/ /\ fnOp = "resolve"
          /\ fnIn \in [language : ResolveLanguages, country : ResolveCountries]
       \/ /\ fnOp = "timeRange"
          /\ fnIn \in [segments : FnCueLists, timeRange : FnRanges]
       \/ /\ fnOp = "search"
          /\ fnIn \in [segments : TextedCueLists, search : FnSearches]
       \/ /\ fnOp = "segment"
          /\ fnIn \in [segments : DurationCueLists, segment : FnSegments]
       \/ /\ fnOp = "process"
          /\ fnIn \in [segments : OrderedCueLists, options : ProcessOptions]
       \/ /\ fnOp = "format"
          /\ fnIn \in [segments : FormatCueLists,
                        videoDetails : FormatVideoDetails,
                        options : FormatOptions]
       \/ /\ fnOp = "reprocess"
          /\ fnIn \in [transcripts : ReprocessTranscripts,
                        options : ReprocessOptions]
       \/ /\ fnOp = "keyMoments"
          /\ fnIn \in [transcriptData : KeyMomentsCueLists,
                        videoData : {VideoResponse("v1"), NoVideoResponse},
                        maxMoments : MaxMomentsValues]
       \/ /\ fnOp = "segmented"
          /\ fnIn \in [transcriptData : OrderedCueLists \ {<<>>},
                        videoData : {VideoResponse("v1")},
                        segmentCount : SegmentCounts]

\* the candidate list for a requested language and a channel country
ApplyResolve ==
    /\ fnOp = "resolve" /\ ~fnOut.done
    /\ fnOut' = [done |-> TRUE,
                 value |-> LanguagesToTry(fnIn.language,
                                          countryToLanguage(fnIn.country))]
    /\ UNCHANGED <<now, cache, calls, slots, started, fnOp, fnIn, enhanced, source>>

\* the time-range filter on a cue list
ApplyTimeRange ==
    /\ fnOp = "timeRange" /\ ~fnOut.done
    /\ fnOut' = [done |-> TRUE,
                 value |-> filterByTimeRange(fnIn.segments, fnIn.timeRange)]
    /\ UNCHANGED <<now, cache, calls, slots, started, fnOp, fnIn, enhanced, source>>

\* the search filter on a cue list
ApplySearch ==
    /\ fnOp = "search" /\ ~fnOut.done
    /\ fnOut' = [done |-> TRUE,
                 value |-> filterBySearchText(fnIn.segments, fnIn.search)]
    /\ UNCHANGED <<now, cache, calls, slots, started, fnOp, fnIn, enhanced, source>>

\* the segmentation of a cue list: what it returns, and `result`, the chunks
\* it has built before it flattens them
ApplySegment ==
    /\ fnOp = "segment" /\ ~fnOut.done
    /\ fnOut' = [done |-> TRUE,
                 value |-> [result |-> segmentResult(fnIn.segments, fnIn.segment),
                            returned |-> segmentTranscript(fnIn.segments,
                                                           fnIn.segment)]]
    /\ UNCHANGED <<now, cache, calls, slots, started, fnOp, fnIn, enhanced, source>>

\* the processor on a cue list
ApplyProcess ==
    /\ fnOp = "process" /\ ~fnOut.done
    /\ fnOut' = [done |-> TRUE,
                 value |-> processTranscript(fnIn.segments, fnIn.options)]
    /\ UNCHANGED <<now, cache, calls, slots, started, fnOp, fnIn, enhanced, source>>

\* the formatter on a processed cue list
ApplyFormat ==
    /\ fnOp = "format" /\ ~fnOut.done
    /\ fnOut' = [done |-> TRUE,
                 value |-> formatTranscript(fnIn.segments, fnIn.videoDetails,
                                            fnIn.options)]
    /\ UNCHANGED <<now, cache, calls, slots, started, fnOp, fnIn, enhanced, source>>

\* the key moments report of a transcript: what is returned, and the
\* paragraphs and the key moments it is built from
ApplyKeyMoments ==
    /\ fnOp = "keyMoments" /\ ~fnOut.done
    /\ fnOut' = [done |-> TRUE,
                 value |-> [paragraphs |-> paragraphsOf(fnIn.transcriptData),
                            keyMoments |->
                               keyMomentsOf(paragraphsOf(fnIn.transcriptData),
                                            fnIn.maxMoments),
                            returned |->
                               keyMomentsTranscript(fnIn.transcriptData,
                                                    fnIn.videoData,
                                                    fnIn.maxMoments)]]
    /\ UNCHANGED <<now, cache, calls, slots, started, fnOp, fnIn, enhanced, source>>

\* the segmented report of a transcript: what is returned, and the windows
\* it is built from
ApplySegmented ==
    /\ fnOp = "segmented" /\ ~fnOut.done
    /\ fnOut' = [done |-> TRUE,
                 value |-> [segments |-> windowsOf(fnIn.transcriptData,
                                                   fnIn.segmentCount),
                            returned |->
                               segmentedTranscript(fnIn.transcriptData,
                                                   fnIn.videoData,
                                                   fnIn.segmentCount)]]
    /\ UNCHANGED <<now, cache, calls, slots, started, fnOp, fnIn, enhanced, source>>

\* the processor as getEnhancedTranscript applies it: by getTranscript to the
\* cues of each video, and again to the processed cues put together
ApplyReprocess ==
    LET videoIds == SubSeq(<<"v1", "v2">>, 1, Len(fnIn.transcripts))
        once == [k \in DOMAIN fnIn.transcripts |->
                   processTranscript(fnIn.transcripts[k], fnIn.options)]
    IN /\ fnOp = "reprocess" /\ ~fnOut.done
       /\ fnOut' = [done |-> TRUE,
                    value |-> [once |-> once,
                               twice |-> processedTranscriptOf(videoIds, once,
                                                               fnIn.options)]]
       /\ UNCHANGED <<now, cache, calls, slots, started, fnOp, fnIn, enhanced, source>>

NextFn ==
    \/ ApplyResolve
    \/ ApplyTimeRange
    \/ ApplySearch
    \/ ApplySegment
    \/ ApplyProcess
    \/ ApplyFormat
    \/ ApplyKeyMoments
    \/ ApplySegmented
    \/ ApplyReprocess

SpecFn == InitFn /\ [][NextFn]_vars

----------------------------------------------------------------------------
(* Properties of getTranscript *)

NoDup(q) == \A a, b \in 1..Len(q) : a # b => q[a] # q[b]

IsPrefix(p, q) == Len(p) <= Len(q) /\ p = SubSeq(q, 1, Len(p))

\* the cues of `cues` the request's time range keeps, as the spec states it
Filtered(cues, options) ==
    LET InRange(cue) ==
            /\ cue.offset >= (IF options.timeRange.start = NoNum THEN 0
                              ELSE options.timeRange.start) * 1000
            /\ \/ options.timeRange.end = NoNum
               \/ cue.offset + cue.duration <= options.timeRange.end * 1000
    IN IF options.timeRange.given THEN SelectSeq(cues, InRange) ELSE cues

\* a call that went to the caption source and is over
Fetched(c) == c.pc = "done" /\ ~c.fromCache

\* an answer that makes the loop go on: an empty list, or a throw that is not
\* the no-captions signal
IsNoCaptionsSignal(c, answer) ==
    answer.kind = "throw" /\ answer.message = NoCaptionsMsg(c.videoId)
Skipped(c, answer) ==
    \/ answer.kind = "cues" /\ answer.cues = <<>>
    \/ answer.kind = "throw" /\ answer.message # NoCaptionsMsg(c.videoId)

\* C1: the candidates are probed one at a time in list order, none twice; an
\* empty list or a language-specific error moves on to the next candidate; the
\* first non-empty answer ends the call, which returns that answer's cues with
\* the request's filters applied, and nothing is probed after it.
C1_OrderedFallback ==
    \A s \in slots :
        LET c == calls[s]
            n == Len(c.probed)
        IN /\ IsPrefix(c.probed, c.languagesToTry)
           /\ NoDup(c.probed)
           /\ c.pc \in {"idle", "videoDetails", "channelDetails"} => n = 0
           /\ c.pc = "probe" => n = c.i + 1 /\ ~Succeeded(c.lastAnswer)
           /\ Skipped(c, c.lastAnswer) =>
                 \/ c.pc = "probe" /\ n >= 2
                 \/ /\ c.pc = "done" /\ c.outcome = "error"
                    /\ c.probed = c.languagesToTry
           /\ Succeeded(c.lastAnswer) =>
                 /\ c.pc = "done" /\ c.outcome = "ok"
                 /\ c.lastAnswer.cues = Captions(c.videoId, c.probed[n])
                 /\ c.result = Filtered(c.lastAnswer.cues, c.options)
           /\ Fetched(c) /\ c.outcome = "ok" => Succeeded(c.lastAnswer)

\* C1 witness: a request with a time range whose candidates were skipped one
\* after the other until the last of the pool answered with its cues
C1_Witness ==
    \E s \in slots :
        /\ calls[s].pc = "done" /\ calls[s].outcome = "ok"
        /\ calls[s].options.timeRange.given
        /\ calls[s].probed = fallbackLanguages
        /\ calls[s].lastError.message = NetworkMsg

\* C2: once getSubtitles throws the no-captions signal, on whichever attempt,
\* the call is over with no further probe and its TranscriptError says that no
\* captions are available; when the first attempt gets it, one attempt is made.
C2_NoCaptionsStops ==
    \A s \in slots :
        LET c == calls[s]
        IN IsNoCaptionsSignal(c, c.lastAnswer) =>
              /\ c.pc = "done" /\ c.outcome = "error"
              /\ c.error.name = "TranscriptError"
              /\ c.error.message =
                    <<"No captions available for this video:", c.videoId>>
              /\ Len(c.probed) = c.i + 1
              /\ IsPrefix(c.probed, c.languagesToTry)
              /\ Len(c.probed) < Len(c.languagesToTry)
                    => c.languagesToTry[Len(c.probed) + 1] \notin Range(c.probed)

\* C2 witness: the signal arrives on the first attempt and the call is over
\* after that one probe
C2_Witness ==
    \E s \in slots :
        /\ IsNoCaptionsSignal(calls[s], calls[s].lastAnswer)
        /\ calls[s].pc = "done"
        /\ calls[s].probed = <<"en">>

\* C2, second case reached as well: the signal arrives on a later attempt
C2_WitnessLater ==
    \E s \in slots :
        /\ IsNoCaptionsSignal(calls[s], calls[s].lastAnswer)
        /\ calls[s].pc = "done"
        /\ Len(calls[s].probed) = 3

AllFailedMessage(errorMessage) ==
    <<"Failed to fetch transcript in any available language:">> \o errorMessage

\* a call that failed with every candidate exhausted and no no-captions signal
Exhausted(c) == c.pc = "done" /\ c.outcome = "error" /\ ~c.hasNoCaptionsError

\* C3 as stated: the cause of the all-languages-failed error is the error the
\* last attempt raised.
C3_CauseIsLastAttempts ==
    \A s \in slots :
        LET c == calls[s]
        IN Exhausted(c) =>
              /\ c.probed = c.languagesToTry
              /\ c.lastAnswer.kind = "throw"
              /\ c.error.name = "TranscriptError"
              /\ c.error.message = AllFailedMessage(c.lastAnswer.message)
              /\ c.error.originalError = Error(c.lastAnswer.message)

\* C3 amended: every candidate was probed exactly once and the error says that
\* all languages failed; its cause is the last error any attempt raised (an
\* attempt that answered with an empty list raises none), and a fresh
\* 'Unknown error' when no attempt raised one.
C3_CauseIsLastRaised ==
    \A s \in slots :
        LET c == calls[s]
            raised == IF c.lastThrown = <<>> THEN <<"Unknown error">>
                      ELSE c.lastThrown
        IN Exhausted(c) =>
              /\ c.probed = c.languagesToTry
              /\ NoDup(c.probed)
              /\ c.error.name = "TranscriptError"
              /\ c.error.message = AllFailedMessage(raised)
              /\ c.error.originalError = Error(raised)

\* C3 witness: the last candidate answered with an empty list after an earlier
\* one had thrown
C3_Witness ==
    \E s \in slots :
        /\ Exhausted(calls[s])
        /\ calls[s].lastAnswer.kind = "cues"
        /\ calls[s].lastThrown # <<>>

\* C4: after a fetch that requested L (or none) and succeeded in M, the cache
\* holds M's raw cues under the key of L (or 'default') and under the key of
\* M, and each is a hit for as long as the entry is younger than the TTL.
C4_BothKeysPopulated ==
    \A s \in slots :
        LET c == calls[s]
            keyL == <<c.videoId, IF c.options.language = Undefined
                                 THEN "default" ELSE c.options.language>>
            keyM == <<c.videoId, c.probed[Len(c.probed)]>>
        IN Fetched(c) /\ c.outcome = "ok" =>
              \A k \in {keyL, keyM} :
                 /\ k \in DOMAIN cache
                 /\ cache[k].v = c.lastAnswer.cues
                 /\ now - cache[k].t < 3600 => CacheHit(k)

\* C4 witness: en requested, en fails with a language-specific error, ko
\* succeeds; both entries hold ko's cues
C4_Witness ==
    \E s \in slots :
        LET c == calls[s]
        IN /\ Fetched(c) /\ c.outcome = "ok"
           /\ c.options.language = "en"
           /\ c.probed = <<"en", "ko">>
           /\ c.lastThrown = LangMsg("en", c.videoId)
           /\ c.result = Captions(c.videoId, "ko")
           /\ <<c.videoId, "en">> \in DOMAIN cache
           /\ cache[<<c.videoId, "en">>].v = Captions(c.videoId, "ko")
           /\ cache[<<c.videoId, "ko">>].v = Captions(c.videoId, "ko")

\* C5: the cache is written only by the step in which a probe of some call
\* returns a non-empty cue list; every other step, the failing end of a call
\* included, leaves every entry as it was.
C5_WrittenOnlyOnSuccess ==
    [][ \/ cache' = cache
        \/ \E s \in slots :
              /\ calls[s].pc = "probe"
              /\ calls'[s].pc = "done" /\ calls'[s].outcome = "ok"
              /\ Succeeded(calls'[s].lastAnswer)
              /\ \A k \in DOMAIN cache' :
                    \/ k \in DOMAIN cache /\ cache'[k] = cache[k]
                    \/ cache'[k].v = calls'[s].lastAnswer.cues
      ]_vars

\* C5 witness: a call that found the cache populated by an earlier call, probed
\* and failed
C5_Witness ==
    \E s \in slots :
        /\ calls[s].pc = "done" /\ calls[s].outcome = "error"
        /\ Len(calls[s].probed) >= 2
        /\ DOMAIN cache # {}

\* C6: a lookup that finds an unexpired entry under the request's key makes no
\* caption-source and no metadata call and returns the entry's cues with the
\* request's own filters applied; what the cache holds is always a raw cue
\* list of the source.
C6_HitServesFilteredRaw ==
    /\ \A k \in DOMAIN cache : cache[k].v \in RawCueLists
    /\ \A s \in slots :
          LET c == calls[s]
              key == <<c.videoId, IF c.options.language = Undefined
                                  THEN "default" ELSE c.options.language>>
          IN /\ c.pc # "idle" /\ c.entryAge # NoNum /\ c.entryAge < 3600
                   => c.fromCache
             /\ c.fromCache =>
                   /\ c.pc = "done" /\ c.outcome = "ok"
                   /\ c.probed = <<>> /\ c.metaCalls = 0
                   /\ c.result = Filtered(cache[key].v, c.options)

\* C6 witness: a request with a time range served from an entry that another
\* request, without one, had populated
C6_Witness ==
    \E s \in slots :
        /\ calls[s].fromCache
        /\ calls[s].options.timeRange.given
        /\ Len(calls[s].result) = 1
        /\ calls[s].options.language = Undefined

\* C7: a lookup less than 3600 seconds after the entry's write is served from
\* it; a lookup more than 3600 seconds after it treats it as absent and runs
\* the fallback against the caption source again.
C7_TimeToLive ==
    \A s \in slots :
        LET c == calls[s]
        IN c.pc # "idle" /\ c.entryAge # NoNum =>
              /\ c.entryAge < 3600 => c.fromCache /\ c.probed = <<>>
              /\ c.entryAge > 3600 =>
                    /\ ~c.fromCache
                    /\ c.pc = "done" => Len(c.probed) >= 1

\* C7 witness: an entry 3601 seconds old at the lookup, and the call has gone
\* to the caption source again
C7_Witness ==
    \E s \in slots :
        /\ calls[s].entryAge = 3601
        /\ calls[s].pc = "done"
        /\ Len(calls[s].probed) >= 1

\* C7, the other side reached as well: an entry 3599 seconds old is served
C7_WitnessFresh ==
    \E s \in slots : calls[s].entryAge = 3599 /\ calls[s].fromCache

\* C9: the metadata providers are called only when no language is requested;
\* when the detection fails (a provider throws, or there is no channel, no
\* country, or a country off the table) the call goes on to probe the plain
\* pool in its order, and an error it then ends with stems from the probes.
C9_DetectionNeverFails ==
    \A s \in slots :
        LET c == calls[s]
        IN /\ c.metaCalls > 0 => c.options.language = Undefined
           /\ c.options.language # Undefined /\ c.pc # "idle" =>
                 c.metaCalls = 0 /\ c.detection = "none"
           /\ c.detection = "failed" =>
                 /\ c.pc \in {"probe", "done"}
                 /\ c.languagesToTry = fallbackLanguages
                 /\ Len(c.probed) >= 1 /\ IsPrefix(c.probed, fallbackLanguages)
                 /\ c.outcome = "error" =>
                       /\ c.error.originalError.message # QuotaMsg
                       /\ c.error.originalError.message
                             \in {c.lastThrown, <<"Unknown error">>}

\* C9 witness: getChannelDetails failed or gave no usable country, and the
\* call then succeeded in the pool's second language
C9_Witness ==
    \E s \in slots :
        /\ calls[s].detection = "failed"
        /\ calls[s].metaCalls = 2
        /\ calls[s].outcome = "ok"
        /\ calls[s].probed = <<"en", "ko">>

----------------------------------------------------------------------------
(* Properties of the pure functions *)

ClaimedPool ==
    <<"en", "ko", "ja", "es", "fr", "de", "zh", "pt", "ru", "it", "ar", "hi">>

ClaimedPoolWithout(code) ==
    LET Other(lang) == lang # code
    IN SelectSeq(ClaimedPool, Other)

\* C8: the candidate list is [requested] and the pool without it when a
\* language is requested (an empty string requests none); else [detected] and
\* the pool without it when the country maps to a language; else the pool of
\* 12 codes as it is. It is never empty and holds no code twice.
C8_CandidateList ==
    fnOp = "resolve" /\ fnOut.done =>
        LET requested == fnIn.language
            detected == countryToLanguage(fnIn.country)
            list == fnOut.value
        IN /\ Len(list) >= 1
           /\ NoDup(list)
           /\ IF requested \notin {Undefined, ""}
              THEN list = <<requested>> \o ClaimedPoolWithout(requested)
              ELSE IF detected # Undefined
              THEN list = <<detected>> \o ClaimedPoolWithout(detected)
              ELSE list = ClaimedPool /\ Len(list) = 12

\* C8 witness: no language requested, the country maps to a language in the
\* middle of the pool, and the list has that language first and once
C8_Witness ==
    /\ fnOp = "resolve" /\ fnOut.done
    /\ fnIn.language = Undefined /\ fnIn.country = "BR"
    /\ fnOut.value =
          <<"pt", "en", "ko", "ja", "es", "fr", "de", "zh", "ru", "it", "ar", "hi">>

\* C8, the requested case reached as well
C8_WitnessRequested ==
    /\ fnOp = "resolve" /\ fnOut.done
    /\ fnIn.language = "hi" /\ fnIn.country = "KR"
    /\ fnOut.value[1] = "hi" /\ Len(fnOut.value) = 12

\* the cues a time range keeps according to the spec: an end that is given,
\* whatever its value, bounds the cue's end
ClaimedInRange(cue, timeRange) ==
    /\ cue.offset >= (IF timeRange.start = NoNum THEN 0 ELSE timeRange.start) * 1000
    /\ \/ timeRange.end = NoNum
       \/ cue.offset + cue.duration <= timeRange.end * 1000

\* C10 as stated: the filter keeps, in input order, exactly the cues that start
\* at or after start (0 when none is given) and, when an end is given (any
\* value >= 0), end at or before it.
C10_TimeRangeFilter ==
    fnOp = "timeRange" /\ fnOut.done =>
        LET Keep(cue) == ClaimedInRange(cue, fnIn.timeRange)
        IN fnOut.value = SelectSeq(fnIn.segments, Keep)

\* C10 restricted to the ranges whose end is absent or positive, where the
\* filter does what the claim says
C10_TimeRangeFilterNonZeroEnd ==
    fnOp = "timeRange" /\ fnOut.done /\ fnIn.timeRange.end # 0 =>
        LET Keep(cue) == ClaimedInRange(cue, fnIn.timeRange)
        IN fnOut.value = SelectSeq(fnIn.segments, Keep)

\* the letters a query letter stands for: itself and, unless the search is
\* case-sensitive, the same letter in the other case
SameLetter(a, b, caseSensitive) ==
    \/ a = b
    \/ ~caseSensitive /\ {a, b} \in {{"a", "A"}, {"b", "B"}}

\* the text contains the query
Contains(text, query, caseSensitive) ==
    \E start \in 1..(Len(text) - Len(query) + 1) :
        \A j \in 1..Len(query) :
            SameLetter(text[start + j - 1], query[j], caseSensitive)

\* the indices within k of the index of some cue whose text contains the query
ClaimedIndices(segments, search) ==
    LET k == IF search.contextLines = NoNum THEN 0 ELSE search.contextLines
        hits == {m \in DOMAIN segments :
                    Contains(segments[m].text, search.query,
                             search.caseSensitive)}
    IN {i \in DOMAIN segments : \E m \in hits : i - m <= k /\ m - i <= k}

\* `out` is the cues of `segments` at the indices `chosen`, each once, in
\* input order
IsSelection(out, segments, chosen) ==
    /\ Len(out) = Cardinality(chosen)
    /\ \A i \in chosen :
          out[Cardinality({x \in chosen : x <= i})] = segments[i]

C11_WitnessBlank ==
    /\ fnOp = "search" /\ fnOut.done
    /\ fnIn.search.query = <<" ">>
    /\ Len(fnIn.segments) = 2
    /\ \A k \in DOMAIN fnIn.segments : fnIn.segments[k].text = <<"A">>
    /\ fnOut.value = fnIn.segments

\* the segmentation is carried out: 1 < count < N
Segmenting(method) ==
    /\ fnOp = "segment" /\ fnOut.done
    /\ fnIn.segment.method \in method
    /\ fnIn.segment.count > 1 /\ fnIn.segment.count < Len(fnIn.segments)

\* the chunks are non-empty consecutive runs of `segments` that cover it in
\* its order: each starts where the one before it ends
IsPartition(chunks, segments) ==
    LET End[c \in 0..Len(chunks)] ==
            IF c = 0 THEN 0 ELSE End[c - 1] + Len(chunks[c])
    IN /\ End[Len(chunks)] = Len(segments)
       /\ \A c \in 1..Len(chunks) :
             /\ Len(chunks[c]) > 0
             /\ chunks[c] = SubSeq(segments, End[c - 1] + 1, End[c])

\* N / count rounded up
RoundedUp(n, count) == CHOOSE q \in 0..n : q * count >= n /\ (q - 1) * count < n

\* C12 as stated: 'equal' segmentation with 1 < count < N splits the cues into
\* exactly count consecutive chunks, each of ceil(N / count) cues but for a
\* shorter last one, and the chunks put together are the N cues in their order.
C12_EqualChunks ==
    Segmenting({Undefined, "equal"}) =>
        LET chunks == fnOut.value.result
            size == RoundedUp(Len(fnIn.segments), fnIn.segment.count)
        IN /\ Len(chunks) = fnIn.segment.count
           /\ \A c \in 1..(Len(chunks) - 1) : Len(chunks[c]) = size
           /\ Len(chunks[Len(chunks)]) \in 1..size
           /\ IsPartition(chunks, fnIn.segments)
           /\ fnOut.value.returned = fnIn.segments

\* C12 amended: the chunks number ceil(N / ceil(N / count)), which is at
\* least 2 and at most count; the rest as stated.
C12_EqualChunksAtMostCount ==
    Segmenting({Undefined, "equal"}) =>
        LET chunks == fnOut.value.result
            size == RoundedUp(Len(fnIn.segments), fnIn.segment.count)
        IN /\ Len(chunks) = RoundedUp(Len(fnIn.segments), size)
           /\ Len(chunks) >= 2 /\ Len(chunks) <= fnIn.segment.count
           /\ \A c \in 1..(Len(chunks) - 1) : Len(chunks[c]) = size
           /\ Len(chunks[Len(chunks)]) \in 1..size
           /\ IsPartition(chunks, fnIn.segments)
           /\ fnOut.value.returned = fnIn.segments

\* C12 witness: 20 cues and count 4 give 4 chunks of 5 and the same 20 cues
C12_Witness ==
    /\ Segmenting({"equal"})
    /\ Len(fnIn.segments) = 20 /\ fnIn.segment.count = 4
    /\ Len(fnOut.value.result) = 4
    /\ \A c \in 1..4 : Len(fnOut.value.result[c]) = 5
    /\ fnOut.value.returned = fnIn.segments

\* C12, fewer chunks than count reached as well: 5 cues and count 4 give
\* chunks of 2, 2 and 1
C12_WitnessFewer ==
    /\ Segmenting({"equal"})
    /\ Len(fnIn.segments) = 5 /\ fnIn.segment.count = 4
    /\ Len(fnOut.value.result) = 3
    /\ Len(fnOut.value.result[3]) = 1

\* C13 as stated: 'smart' segmentation with count between 2 and N - 1 yields
\* exactly count segments, each a non-empty consecutive run, not overlapping,
\* together all cues in their order.
C13_SmartSegments ==
    Segmenting({"smart"}) =>
        /\ Len(fnOut.value.result) = fnIn.segment.count
        /\ IsPartition(fnOut.value.result, fnIn.segments)
        /\ fnOut.value.returned = fnIn.segments

\* C13 amended: it yields at least one and at most count segments; the rest
\* as stated.
C13_SmartSegmentsAtMostCount ==
    Segmenting({"smart"}) =>
        /\ Len(fnOut.value.result) \in 1..fnIn.segment.count
        /\ IsPartition(fnOut.value.result, fnIn.segments)
        /\ fnOut.value.returned = fnIn.segments

\* C13 witness: very uneven durations, a zero one among them, and exactly
\* count segments
C13_Witness ==
    /\ Segmenting({"smart"})
    /\ fnIn.segment.count = 3
    /\ Len(fnIn.segments) = 5
    /\ \E j, k \in 1..5 : /\ fnIn.segments[j].duration = 0
                          /\ fnIn.segments[k].duration = 3000
    /\ Len(fnOut.value.result) = 3

\* C13, fewer segments than count reached as well: the one long cue comes
\* last and all cues end up in a single segment
C13_WitnessFewer ==
    /\ Segmenting({"smart"})
    /\ fnIn.segment.count = 2
    /\ Len(fnIn.segments) = 3
    /\ fnIn.segments[3].duration = 3000
    /\ Len(fnOut.value.result) = 1

\* the cues are in non-decreasing offset order
Ordered(cues) ==
    \A j, k \in DOMAIN cues : j < k => cues[j].offset <= cues[k].offset

\* `out` is `segments` with some cues left out: its cues are cues of
\* `segments`, as they are, in the order they have there
IsSubsequence(out, segments) ==
    LET At[k \in 0..Len(out)] ==
            IF k = 0 THEN 0
            ELSE LET before == At[k - 1]
                     later == {j \in DOMAIN segments :
                                 j > before /\ segments[j] = out[k]}
                 IN IF before = NoNum \/ later = {} THEN NoNum
                    ELSE CHOOSE j \in later : \A i \in later : j <= i
    IN At[Len(out)] # NoNum

\* C14: on cues in non-decreasing offset order, the time-range filter, the
\* search filter, either segmentation method and processTranscript with any
\* of them together give cues in non-decreasing offset order again, each an
\* input cue as it was.
C14_OrderPreserved ==
    /\ fnOp = "process" /\ fnOut.done /\ Ordered(fnIn.segments) =>
          Ordered(fnOut.value) /\ IsSubsequence(fnOut.value, fnIn.segments)
    /\ fnOp = "search" /\ fnOut.done /\ Ordered(fnIn.segments) =>
          Ordered(fnOut.value) /\ IsSubsequence(fnOut.value, fnIn.segments)
    /\ fnOp = "segment" /\ fnOut.done /\ Ordered(fnIn.segments) =>
          /\ Ordered(fnOut.value.returned)
          /\ IsSubsequence(fnOut.value.returned, fnIn.segments)
    /\ fnOp = "timeRange" /\ fnOut.done /\ Ordered(fnIn.segments) =>
          Ordered(fnOut.value) /\ IsSubsequence(fnOut.value, fnIn.segments)

\* C14 witness: of five cues the time range drops the first, the search and
\* its context keep three of the other four, and these are segmented in two
C14_Witness ==
    /\ fnOp = "process" /\ fnOut.done
    /\ fnIn.options.timeRange.given /\ fnIn.options.search.given
    /\ fnIn.options.segment.method = "smart"
    /\ Len(fnIn.segments) = 5
    /\ fnIn.segments[1].offset = 0 /\ fnIn.segments[2].offset = 1000
    /\ fnOut.value = SubSeq(fnIn.segments, 2, 4)

\* the sum of the durations of the cues, in milliseconds
TotalMs(cues) ==
    LET Sum[k \in 0..Len(cues)] ==
            IF k = 0 THEN 0 ELSE cues[k].duration + Sum[k - 1]
    IN Sum[Len(cues)]

\* C15: the result has the cue list as its segments, its length as
\* totalSegments, the sum of the cues' durations divided by 1000 as duration
\* (not the end of the last cue; 0 for no cue) and the requested format, 'raw'
\* when none is requested.
C15_FormatFields ==
    fnOp = "format" /\ fnOut.done =>
        LET r == fnOut.value
        IN /\ r.segments = fnIn.segments
           /\ r.totalSegments = Len(fnIn.segments)
           /\ r.duration.whole * 1000 + r.duration.thousandths
                 = TotalMs(fnIn.segments)
           /\ r.duration.thousandths \in 0..999
           /\ fnIn.segments = <<>> =>
                 r.duration.whole = 0 /\ r.duration.thousandths = 0
           /\ r.format = IF fnIn.options.format = Undefined THEN "raw"
                         ELSE fnIn.options.format

\* C15 witness: no format requested; three cues that last 4.5 seconds in all,
\* the last of which ends 75 minutes in
C15_Witness ==
    /\ fnOp = "format" /\ fnOut.done
    /\ fnIn.options.format = Undefined /\ fnOut.value.format = "raw"
    /\ fnOut.value.totalSegments = 3
    /\ fnIn.segments[3].offset = 4530000
    /\ fnOut.value.duration = [whole |-> 4, thousandths |-> 500]

\* the decimal digits of a number below 1000
ClaimedDecimal(n) ==
    IF n < 10 THEN <<Digits[n + 1]>>
    ELSE IF n < 100 THEN <<Digits[(n \div 10) + 1], Digits[(n % 10) + 1]>>
    ELSE <<Digits[(n \div 100) + 1], Digits[((n \div 10) % 10) + 1],
           Digits[(n % 10) + 1]>>

\* '[M:SS] text' for a cue
ClaimedLine(cue) ==
    LET s == cue.offset \div 1000
    IN <<"[">> \o ClaimedDecimal(s \div 60)
       \o <<":", Digits[((s % 60) \div 10) + 1], Digits[((s % 60) % 10) + 1]>>
       \o <<"]", " ">> \o cue.text

\* the lines of the cues with a newline between any two
ClaimedLines(cues) ==
    LET Upto[k \in 0..Len(cues)] ==
            IF k = 0 THEN <<>>
            ELSE (IF k = 1 THEN <<>> ELSE Upto[k - 1] \o <<"\n">>)
                 \o ClaimedLine(cues[k])
    IN Upto[Len(cues)]

\* C16: the timestamped format renders a cue as '[M:SS] text', M the whole
\* minutes of the offset with no hour part and no upper bound, SS the seconds
\* past the minute in two digits; the text is these lines, in segment order,
\* joined by newlines.
C16_Timestamped ==
    /\ fnOp = "format" /\ fnOut.done /\ fnIn.options.format = "timestamped" =>
          /\ fnOut.value.hasText
          /\ fnOut.value.text = ClaimedLines(fnIn.segments)
    /\ formatTimestamp(4530000) = <<"7", "5", ":", "3", "0">>
    /\ formatTimestamp(0) = <<"0", ":", "0", "0">>

\* C16 witness: a cue at 75:30 and one at 1:05, on two lines
C16_Witness ==
    /\ fnOp = "format" /\ fnOut.done /\ fnIn.options.format = "timestamped"
    /\ fnOut.value.text =
          <<"[", "7", "5", ":", "3", "0", "]", " ", "h", "i", "\n",
            "[", "1", ":", "0", "5", "]", " ", "h", "i">>

----------------------------------------------------------------------------
(* Properties of the multi-video request and of calls side by side *)

\* the transcripts of the request have been put together
Combined ==
    \/ enhanced.pc = "videoDetails"
    \/ enhanced.pc = "done" /\ enhanced.outcome = "ok"

\* C17: in a request of several videos the combined cues follow the order of
\* the video ids, whichever fetch resolves first: the cues of a video, in
\* their own order and each tagged with the video's id, come before every cue
\* of the next video.
C17_InputOrder ==
    Combined /\ Len(enhanced.videoIds) > 1 =>
        LET ids == enhanced.videoIds
            all == enhanced.combinedSegments
            Before[k \in 0..Len(ids)] ==
                IF k = 0 THEN 0 ELSE Before[k - 1] + Len(calls[k].result)
        IN /\ Len(all) = Before[Len(ids)]
           /\ \A k \in DOMAIN ids :
                 \A j \in DOMAIN calls[k].result :
                    LET cue == all[Before[k - 1] + j]
                    IN /\ cue.videoId = ids[k]
                       /\ cue.text = calls[k].result[j].text
                       /\ cue.offset = calls[k].result[j].offset
                       /\ cue.duration = calls[k].result[j].duration
                       /\ cue.text[1] = ids[k]

\* C17 witness: the fetch of the second video resolved before the fetch of
\* the first, and the cues of the first video come first
C17_Witness ==
    /\ enhanced.pc = "done" /\ enhanced.outcome = "ok"
    /\ enhanced.videoIds = <<"v1", "v2">>
    /\ calls[1].finishedAfter = {2} /\ calls[2].finishedAfter = {}
    /\ Len(enhanced.combinedSegments) = 4
    /\ enhanced.combinedSegments[1].videoId = "v1"
    /\ enhanced.combinedSegments[4].videoId = "v2"

\* two calls for the same key that both went to the caption source, and both
\* got cues; neither found the key in the cache
BothFetched(s, t) ==
    /\ s # t
    /\ calls[s].videoId = calls[t].videoId
    /\ calls[s].options.language = calls[t].options.language
    /\ Fetched(calls[s]) /\ calls[s].outcome = "ok" /\ calls[s].entryAge = NoNum
    /\ Fetched(calls[t]) /\ calls[t].outcome = "ok" /\ calls[t].entryAge = NoNum

\* the key of a call's request
KeyOf(c) ==
    <<c.videoId, IF c.options.language = Undefined THEN "default"
                 ELSE c.options.language>>

\* C18 as stated: two calls for the same key that both miss the cache both
\* fetch, each returns the result of its own fetch, and for every interleaving
\* the values they write under the key are equal, so that the last write
\* leaves the entry as the first did.
C18_WritesAgree ==
    \A s, t \in slots :
        BothFetched(s, t) =>
            /\ Len(calls[s].probed) >= 1 /\ Len(calls[t].probed) >= 1
            /\ calls[s].result = calls[s].lastAnswer.cues
            /\ calls[t].result = calls[t].lastAnswer.cues
            /\ calls[s].lastAnswer.cues = calls[t].lastAnswer.cues
            /\ cache[KeyOf(calls[s])].v = calls[s].lastAnswer.cues

\* C18 amended: both fetch and each returns the result of its own fetch; the
\* values they write under the key are equal when both succeed in the same
\* language; the entry holds what the call that ended last wrote.
C18_LastWriteWins ==
    \A s, t \in slots :
        BothFetched(s, t) =>
            /\ Len(calls[s].probed) >= 1 /\ Len(calls[t].probed) >= 1
            /\ calls[s].result = calls[s].lastAnswer.cues
            /\ calls[t].result = calls[t].lastAnswer.cues
            /\ calls[s].probed[Len(calls[s].probed)]
                  = calls[t].probed[Len(calls[t].probed)]
                  => calls[s].lastAnswer.cues = calls[t].lastAnswer.cues
            /\ t \in calls[s].finishedAfter =>
                  cache[KeyOf(calls[s])].v = calls[s].lastAnswer.cues

\* C18 witness: neither call names a language; the first to end succeeded in
\* en, the other found en failing and succeeded in ko, and the entry of the
\* 'default' key holds the cues in ko
C18_Witness ==
    /\ BothFetched(1, 2)
    /\ calls[1].options.language = Undefined
    /\ calls[1].result = Captions("v1", "en")
    /\ calls[2].result = Captions("v1", "ko")
    /\ 1 \in calls[2].finishedAfter
    /\ cache[<<"v1", "default">>].v = Captions("v1", "ko")

\* C18, equal writes reached as well: both calls succeeded in en
C18_WitnessSame ==
    /\ BothFetched(1, 2)
    /\ calls[1].result = Captions("v1", "en")
    /\ calls[2].result = Captions("v1", "en")
    /\ calls[1].metaCalls = 2 /\ calls[2].metaCalls = 1

\* the error carries the call's video id and options and a cause
Wrapped(c) ==
    /\ c.error.name = "TranscriptError"
    /\ c.error.videoId = c.videoId
    /\ c.error.options = c.options
    /\ ~c.error.originalError.isNull
    /\ c.error.originalError.message
          = (IF c.lastThrown = <<>> THEN <<"Unknown error">> ELSE c.lastThrown)

C20_WrappedAfterLookup ==
    \A s \in slots :
        /\ calls[s].pc = "done" /\ calls[s].outcome = "error"
        /\ calls[s].error # RawError(CacheFailureMsg)
        => Wrapped(calls[s]) /\ Len(calls[s].probed) >= 1

\* a search whose query is empty or white space only
BlankQuery(search) ==
    search.given /\ \A j \in DOMAIN search.query : search.query[j] = " "

\* C19 as stated: a request whose search carries an empty or white-space
\* query is rejected as a missing input before any caption-source or metadata
\* call is made, by the endpoint and by getEnhancedTranscript, and never
\* returns a transcript.
C19_BlankQueryRejected ==
    enhanced.pc # "idle" /\ BlankQuery(enhanced.options.search) =>
        /\ \A s \in slots : calls[s].probed = <<>> /\ calls[s].metaCalls = 0
        /\ enhanced.pending = {}
        /\ enhanced.pc = "done" /\ enhanced.outcome # "ok"
        /\ enhanced.response.status = 400

\* a call that failed because the video has no captions: the caption source
\* gave the no-captions signal, or every attempt that threw told of a missing
\* language
FailedForNoCaptions(c) ==
    /\ c.pc = "done" /\ c.outcome = "error" /\ ~c.fromCache
    /\ \/ c.lastThrown = NoCaptionsMsg(c.videoId)
       \/ \E lang \in Range(fallbackLanguages) :
             c.lastThrown = LangMsg(lang, c.videoId)

\* a call that failed because the caption fetch itself failed: what the caption
\* source threw last was a transport error
FailedForTransport(c) ==
    /\ c.pc = "done" /\ c.outcome = "error" /\ ~c.fromCache
    /\ c.lastThrown = NetworkMsg

\* C21 as stated: at the transcript endpoints a request that fails for want of
\* captions is answered with 404, and one that fails because the caption fetch
\* itself failed (a network or quota error) is answered with 500, never 404.
C21_NotFoundOnlyForNoCaptions ==
    enhanced.pc = "done" /\ enhanced.outcome = "error" =>
        /\ FailedForNoCaptions(calls[1]) => enhanced.response.status = 404
        /\ FailedForTransport(calls[1]) => enhanced.response.status = 500

\* a request whose getTranscript calls have all come back with cues
TranscriptsFetched ==
    /\ enhanced.videoIds # <<>>
    /\ \A k \in DOMAIN enhanced.videoIds :
          calls[k].pc = "done" /\ calls[k].outcome = "ok"

\* C22 as stated: with includeMetadata set, a request whose transcripts were
\* fetched returns them whatever becomes of the details of its videos, and
\* its metadata holds one descriptor for each video whose details were
\* retrieved, in input order, with no entry for the others.
C22_MetadataDropsUnretrieved ==
    /\ enhanced.pc = "done" /\ enhanced.options.includeMetadata
    /\ TranscriptsFetched
    => /\ enhanced.outcome = "ok"
       /\ enhanced.response.status = 200
       /\ enhanced.result.hasMetadata
       /\ IsSelection([j \in DOMAIN enhanced.result.metadata |->
                         enhanced.result.metadata[j].id],
                      enhanced.videoIds,
                      {k \in DOMAIN enhanced.videoIds :
                          Len(enhanced.videoDetails[k].items) > 0})

\* a report call whose getTranscript went to the caption source and got no
\* cue from it, in any language
NoCueYielded ==
    /\ enhanced.op # "none"
    /\ Fetched(calls[1])
    /\ ~(calls[1].lastAnswer.kind = "cues" /\ calls[1].lastAnswer.cues # <<>>)

C23_WitnessSegmented ==
    /\ enhanced.pc = "done" /\ enhanced.op = "segmented" /\ NoCueYielded
    /\ enhanced.outcome = "error" /\ calls[1].hasNoCaptionsError

----------------------------------------------------------------------------
(* Properties of the reports *)

\* clamp(floor(n / 15), 5, 8)
ClaimedParagraphSize(n) ==
    IF n \div 15 < 5 THEN 5 ELSE IF n \div 15 > 8 THEN 8 ELSE n \div 15

\* the texts of the cues from..to with a blank between any two, less the
\* blanks at either end
ClaimedParagraphText(data, from, to) ==
    LET Upto[k \in (from - 1)..to] ==
            IF k < from THEN <<>>
            ELSE (IF k = from THEN <<>> ELSE Upto[k - 1] \o <<" ">>)
                 \o data[k].text
        all == Upto[to]
        blankUpTo(k) == \A j \in 1..k : all[j] = " "
        blankFrom(k) == \A j \in k..Len(all) : all[j] = " "
    IN IF blankUpTo(Len(all)) THEN <<>>
       ELSE SubSeq(all,
                   CHOOSE k \in DOMAIN all : all[k] # " " /\ blankUpTo(k - 1),
                   CHOOSE k \in DOMAIN all : all[k] # " " /\ blankFrom(k + 1))

\* 'M:SS' for a time in milliseconds
ClaimedStamp(ms) ==
    LET s == ms \div 1000
    IN ClaimedDecimal(s \div 60)
       \o <<":", Digits[((s % 60) \div 10) + 1], Digits[((s % 60) % 10) + 1]>>

\* the text holds the pattern somewhere
HasSlice(text, pat) ==
    \E k \in 0..(Len(text) - Len(pat)) :
        \A j \in 1..Len(pat) : text[k + j] = pat[j]

\* the paragraphs are the cues in consecutive groups of `size`, the last
\* possibly shorter, each with the start time of its first cue
GroupedBy(paragraphs, data, size) ==
    /\ Len(paragraphs) = (Len(data) + size - 1) \div size
    /\ \A p \in DOMAIN paragraphs :
          LET from == (p - 1) * size + 1
              to == IF p * size < Len(data) THEN p * size ELSE Len(data)
          IN /\ paragraphs[p].text = ClaimedParagraphText(data, from, to)
             /\ paragraphs[p].startTime.whole * 1000
                   + paragraphs[p].startTime.thousandths = data[from].offset

\* the moments are the `limit` longest of the paragraphs at `kept`, the
\* longest first, each under a heading with its number and its start time
LongestOf(moments, paragraphs, kept, limit, text) ==
    /\ Len(moments) = IF limit < Cardinality(kept) THEN limit
                      ELSE Cardinality(kept)
    /\ \A j \in DOMAIN moments : \E p \in kept : moments[j] = paragraphs[p]
    /\ \A j \in 1..(Len(moments) - 1) :
          Len(moments[j].text) >= Len(moments[j + 1].text)
    /\ \A p \in kept :
          (\A j \in DOMAIN moments : moments[j] # paragraphs[p]) =>
             \A j \in DOMAIN moments :
                Len(moments[j].text) >= Len(paragraphs[p].text)
    /\ \A j \in DOMAIN moments :
          HasSlice(text,
                   <<"## Key Moment ">> \o ClaimedDecimal(j) \o <<" [">>
                   \o ClaimedStamp(moments[j].startTime.whole * 1000
                                   + moments[j].startTime.thousandths)
                   \o <<"]\n">> \o moments[j].text)

\* C24 as stated: the cues are grouped into consecutive paragraphs of
\* clamp(floor(cueCount / 15), 5, 8) cues, every cue in exactly one; only the
\* paragraphs under 100 characters are discarded, one of exactly 100 is kept;
\* at most maxMoments paragraphs are reported, the longest of those kept, in
\* descending text length, each headed by the start time of its first cue.
C24_KeyMoments ==
    fnOp = "keyMoments" /\ fnOut.done =>
        LET paragraphs == fnOut.value.paragraphs
        IN /\ GroupedBy(paragraphs, fnIn.transcriptData,
                        ClaimedParagraphSize(Len(fnIn.transcriptData)))
           /\ LongestOf(fnOut.value.keyMoments, paragraphs,
                        {p \in DOMAIN paragraphs :
                            Len(paragraphs[p].text) >= 100},
                        fnIn.maxMoments, fnOut.value.returned.text)

\* C24 amended: the same grouping, except that a last paragraph of one cue
\* without text is not formed; the paragraphs of 100 characters or fewer are
\* discarded, one of exactly 100 included, and only those of more than 100
\* are ranked; at most maxMoments of them are reported, the longest first,
\* each headed by the start time of its first cue.
C24_KeyMomentsOver100 ==
    fnOp = "keyMoments" /\ fnOut.done =>
        LET data == fnIn.transcriptData
            size == ClaimedParagraphSize(Len(data))
            paragraphs == fnOut.value.paragraphs
            loneBlank == Len(data) % size = 1 /\ data[Len(data)].text = <<>>
        IN /\ GroupedBy(paragraphs,
                        IF loneBlank THEN SubSeq(data, 1, Len(data) - 1)
                        ELSE data,
                        size)
           /\ LongestOf(fnOut.value.keyMoments, paragraphs,
                        {p \in DOMAIN paragraphs :
                            Len(paragraphs[p].text) > 100},
                        fnIn.maxMoments, fnOut.value.returned.text)

\* C24 witness: paragraphs of 100, of 101 and of 120 characters; the one of
\* 100 is discarded and the other two are reported, the longer first
C24_Witness ==
    /\ fnOp = "keyMoments" /\ fnOut.done /\ fnIn.maxMoments = 5
    /\ Len(fnOut.value.paragraphs) = 3
    /\ Len(fnOut.value.paragraphs[1].text) = 100
    /\ Len(fnOut.value.paragraphs[2].text) = 101
    /\ Len(fnOut.value.paragraphs[3].text) = 120
    /\ fnOut.value.keyMoments
          = <<fnOut.value.paragraphs[3], fnOut.value.paragraphs[2]>>

\* C24 witness: 135 cues make 17 paragraphs of eight cues, the last of seven,
\* and maxMoments of them are reported
C24_WitnessLong ==
    /\ fnOp = "keyMoments" /\ fnOut.done /\ fnIn.maxMoments = 2
    /\ Len(fnIn.transcriptData) = 135
    /\ Len(fnOut.value.paragraphs) = 17
    /\ Len(fnOut.value.keyMoments) = 2

\* the end of the last cue, in milliseconds
SpanOf(data) == data[Len(data)].offset + data[Len(data)].duration

\* the cues of `data` whose start lies in window i (from 0) of n equal windows
\* of the span: i * span / n <= offset < (i + 1) * span / n
ClaimedWindow(data, n, i) ==
    {k \in DOMAIN data :
        /\ i * SpanOf(data) <= data[k].offset * n
        /\ data[k].offset * n < (i + 1) * SpanOf(data)}

\* the windows that hold a cue, in time order
ClaimedWindows(data, n) ==
    LET W[i \in 0..n] ==
            IF i = 0 THEN <<>>
            ELSE IF ClaimedWindow(data, n, i - 1) = {} THEN W[i - 1]
            ELSE Append(W[i - 1], i - 1)
    IN W[n]

\* C25: the span from 0 to the end of the last cue is divided into n equal
\* windows; window i gets exactly the cues that start in [i * d, (i + 1) * d);
\* the report has one heading per window that holds a cue, in time order and
\* numbered from 1 without gaps, hence at most n headings and none for an
\* empty window.
C25_Windows ==
    fnOp = "segmented" /\ fnOut.done =>
        LET data == fnIn.transcriptData
            n == fnIn.segmentCount
            windows == ClaimedWindows(data, n)
            segments == fnOut.value.segments
            text == fnOut.value.returned.text
            heading(j) == <<"## Segment ">> \o ClaimedDecimal(j) \o <<" [">>
            headings == {k \in DOMAIN text : text[k] = "## Segment "}
        IN /\ Len(segments) = Len(windows) /\ Len(segments) <= n
           /\ \A j \in DOMAIN segments :
                 /\ IsSelection(segments[j].transcriptSegments, data,
                                ClaimedWindow(data, n, windows[j]))
                 /\ segments[j].startTime.num
                       = windows[j] * SpanOf(data)
                 /\ segments[j].startTime.den = n
                 /\ segments[j].endTime.num
                       = (windows[j] + 1) * SpanOf(data)
                 /\ segments[j].endTime.den = n
                 /\ HasSlice(text,
                             heading(j)
                             \o ClaimedStamp((windows[j] * SpanOf(data)) \div n)
                             \o <<" - ">>
                             \o ClaimedStamp(((windows[j] + 1) * SpanOf(data))
                                             \div n)
                             \o <<"]\n\n">>
                             \o ClaimedLines(segments[j].transcriptSegments))
           /\ Cardinality(headings) = Len(windows)
           /\ \A a, b \in headings :
                 a < b => \E j \in 1..(Len(windows) - 1) :
                             /\ SubSeq(text, a, a + Len(heading(j)) - 1)
                                   = heading(j)
                             /\ \E m \in (j + 1)..Len(windows) :
                                   SubSeq(text, b, b + Len(heading(m)) - 1)
                                      = heading(m)

\* C25 witness: two cues a second each and four windows of half a second;
\* the cues fall into the first and the third window, the second and the
\* fourth are left out, and the headings are numbered 1 and 2
C25_Witness ==
    /\ fnOp = "segmented" /\ fnOut.done /\ fnIn.segmentCount = 4
    /\ Len(fnIn.transcriptData) = 2
    /\ fnIn.transcriptData[1].duration = 1000
    /\ fnIn.transcriptData[2].duration = 1000
    /\ Len(fnOut.value.segments) = 2
    /\ fnOut.value.segments[1].startTime = Ratio(0, 4)
    /\ fnOut.value.segments[2].startTime = Ratio(4000, 4)
    /\ HasSlice(fnOut.value.returned.text,
                <<"## Segment ", "2", " [", "0", ":", "0", "1", " - ",
                  "0", ":", "0", "1", "]\n\n">>)

\* the cues listed in the report, heading after heading
Listed(segments) ==
    LET L[j \in 0..Len(segments)] ==
            IF j = 0 THEN <<>>
            ELSE L[j - 1] \o segments[j].transcriptSegments
    IN L[Len(segments)]

\* C26 as stated: for every transcript in offset order and every segment
\* count from 1 on, each cue is listed under exactly one window heading, the
\* last cue and the cues of zero duration included: the cues listed are the
\* cues of the transcript, each once, and the report has a line for each.
C26_EveryCueListedOnce ==
    fnOp = "segmented" /\ fnOut.done /\ fnIn.segmentCount >= 1 =>
        /\ Listed(fnOut.value.segments) = fnIn.transcriptData
        /\ Cardinality({k \in DOMAIN fnOut.value.returned.text :
                           fnOut.value.returned.text[k] = "]"})
              = Len(fnIn.transcriptData)

----------------------------------------------------------------------------
(* Properties of the second pass of the processor *)

\* the cue without the video id it may carry
Bare(cue) == Cue(cue.text, cue.offset, cue.duration)

\* the cue lists one after the other
Concatenated(lists) ==
    LET C[k \in 0..Len(lists)] ==
            IF k = 0 THEN <<>> ELSE C[k - 1] \o lists[k]
    IN C[Len(lists)]

\* C27: processTranscript applied to its own output returns that output, for
\* every combination of time range, search with context lines and
\* segmentation; so what getEnhancedTranscript returns after its second pass
\* is, for one video, the result of the single pass and, for several, the
\* results of the videos one after the other, no cue added and none lost.
C27_SecondPassChangesNothing ==
    fnOp = "reprocess" /\ fnOut.done =>
        LET once == fnOut.value.once
            twice == fnOut.value.twice
        IN /\ [k \in DOMAIN twice |-> Bare(twice[k])] = Concatenated(once)
           /\ Len(once) = 1 => twice = once[1]
           /\ Len(once) > 1 =>
                 \A k \in DOMAIN twice :
                    twice[k].videoId =
                       IF k <= Len(once[1]) THEN "v1" ELSE "v2"

\* C27 witness: two videos and a search with one line of context; the first
\* pass has taken cues off both transcripts, and the match that ends the
\* first is followed by the context that starts the second
C27_Witness ==
    /\ fnOp = "reprocess" /\ fnOut.done
    /\ Len(fnIn.transcripts) = 2
    /\ fnIn.options.search.given /\ fnIn.options.search.contextLines = 1
    /\ Len(fnIn.transcripts[1]) = 3 /\ Len(fnOut.value.once[1]) = 2
    /\ Len(fnIn.transcripts[2]) = 3 /\ Len(fnOut.value.once[2]) = 2
    /\ fnOut.value.once[1][2].text = <<"a">>
    /\ fnOut.value.once[2][1].text = <<"b">>
    /\ Len(fnOut.value.twice) = 4

\* C27 witness: one video, a time range, a search and a segmentation at once
C27_WitnessSingle ==
    /\ fnOp = "reprocess" /\ fnOut.done
    /\ Len(fnIn.transcripts) = 1
    /\ fnIn.options.timeRange.given /\ fnIn.options.search.given
    /\ fnIn.options.segment.given
    /\ Len(fnIn.transcripts[1]) = 5 /\ Len(fnOut.value.twice) = 3

----------------------------------------------------------------------------
(* Properties of the cache against providers that do not change *)

\* the language a fetcher without cache tries first, and the one it ends on:
\* the first of the candidate list that has a track
HeldCandidates(videoId, options) ==
    LanguagesToTry(options.language,
                   IF TruthyStr(options.language) THEN Undefined
                   ELSE countryToLanguage(source.country[videoId]))

\* what a fetcher without cache returns: the filtered cues of the first
\* candidate language the source holds a track of, or an error
Uncached(videoId, options) ==
    LET list == HeldCandidates(videoId, options)
        holding == {k \in DOMAIN list : list[k] \in source.tracks[videoId]}
    IN IF holding = {} THEN [outcome |-> "error", result |-> <<>>]
       ELSE LET first == CHOOSE k \in holding : \A j \in holding : k <= j
            IN [outcome |-> "ok",
                result |-> Filtered(Captions(videoId, list[first]), options)]

\* C28: against providers whose answers do not change, every getTranscript
\* call returns what a fetcher without cache returns for the same arguments,
\* whether it is served from the cache or not.
C28_CacheTransparent ==
    source.kind = "held" =>
        \A s \in slots :
            calls[s].pc = "done" =>
                [outcome |-> calls[s].outcome, result |-> calls[s].result]
                    = Uncached(calls[s].videoId, calls[s].options)

----------------------------------------------------------------------------
(* Properties of what is cached and returned *)

\* the call asks for no time range and no search
Unfiltered(c) == ~c.options.timeRange.given /\ ~c.options.search.given

\* C29: every value in the transcript cache is a non-empty cue list, and a
\* getTranscript call without time range and search either fails with an
\* error or returns a non-empty cue list, from the cache or from the source.
C29_NeverEmpty ==
    /\ \A key \in DOMAIN cache :
          /\ Len(cache[key].v) > 0
          /\ cache[key].v \in RawCueLists
    /\ \A s \in slots :
          calls[s].pc = "done" /\ Unfiltered(calls[s]) =>
              \/ /\ calls[s].outcome = "error"
                 /\ calls[s].error.name = "TranscriptError"
                 /\ calls[s].result = <<>>
              \/ /\ calls[s].outcome = "ok"
                 /\ Len(calls[s].result) > 0

\* C29 witness: an unfiltered call is served its cues from the cache
C29_Witness ==
    \E s \in slots :
        /\ calls[s].pc = "done" /\ Unfiltered(calls[s])
        /\ calls[s].fromCache /\ calls[s].outcome = "ok"
        /\ Len(calls[s].result) > 0

\* C29 witness: the source answered the last language with an empty list, and
\* the call failed in place of returning it; nothing was cached
C29_WitnessEmptyAnswer ==
    \E s \in slots :
        /\ calls[s].pc = "done" /\ Unfiltered(calls[s])
        /\ calls[s].lastAnswer = [kind |-> "cues", cues |-> <<>>]
        /\ calls[s].outcome = "error"
        /\ cache = <<>>

----------------------------------------------------------------------------
(* Properties of a request for several videos of which one fails *)

\* the calls of the request whose caption fetch has failed
FailedFetches ==
    {k \in DOMAIN enhanced.videoIds :
        calls[k].pc = "done" /\ calls[k].outcome = "error"}

\* C30: when the caption fetch of a video of a request for several videos
\* fails, the request fails with the error of that fetch (the first to fail)
\* and returns no transcript, not a partial one either; the fetches of the
\* other videos go on, and what a successful one writes to the cache is there
\* after the request has failed.
C30_AllOrNothing ==
    enhanced.pc = "done" /\ Len(enhanced.videoIds) > 1 /\ FailedFetches # {} =>
        /\ enhanced.outcome = "error"
        /\ \E k \in FailedFetches :
              /\ calls[k].finishedAfter \cap FailedFetches = {}
              /\ enhanced.error = calls[k].error
              /\ enhanced.error.videoId = enhanced.videoIds[k]
        /\ enhanced.result = NoFormatted
        /\ enhanced.combinedSegments = <<>>
        /\ enhanced.response.status \in {404, 500}
        /\ \A k \in DOMAIN enhanced.videoIds \ FailedFetches :
              /\ calls[k].pc \in {"probe", "done"}
              /\ calls[k].pc = "done" /\ ~calls[k].fromCache =>
                    LET lang == calls[k].languagesToTry[calls[k].i + 1]
                    IN \A key \in {generateTranscriptCacheKey(calls[k].videoId, lang),
                                   generateTranscriptCacheKey(
                                      calls[k].videoId, calls[k].options.language)} :
                          /\ key \in DOMAIN cache
                          /\ Len(cache[key].v) > 0
                          /\ cache[key].v[1].text[1] = calls[k].videoId

\* C30 witness: the fetch of the first video failed and failed the request;
\* the fetch of the second went on, got its cues after that and cached them
C30_Witness ==
    /\ enhanced.pc = "done" /\ enhanced.outcome = "error"
    /\ enhanced.videoIds = <<"v1", "v2">>
    /\ FailedFetches = {1}
    /\ enhanced.error = calls[1].error
    /\ calls[2].pc = "done" /\ calls[2].outcome = "ok" /\ ~calls[2].fromCache
    /\ calls[2].finishedAfter = {1}
    /\ Len(calls[2].probed) > 1
    /\ generateTranscriptCacheKey("v2", "en") \in DOMAIN cache
    /\ generateTranscriptCacheKey("v1", "en") \notin DOMAIN cache

\* C30 witness: both fetches failed, and the request has the error of the
\* one that failed first
C30_WitnessBothFail ==
    /\ enhanced.pc = "done" /\ enhanced.outcome = "error"
    /\ enhanced.videoIds = <<"v1", "v2">>
    /\ FailedFetches = {1, 2}
    /\ calls[1].finishedAfter = {2}
    /\ enhanced.error = calls[2].error

====
